---- MODULE Spec2Model ----
(***************************************************************************)
(* cv-context-manager: the encryption engine (utils/encryption.ts), the    *)
(* row store and cache client (database/client.ts, database/schema.sql)    *)
(* and the secret context service (services/SecretContextService.ts).      *)
(*                                                                         *)
(* JavaScript values.  An object is a function from property names to      *)
(* values (a TLA+ record).  A string is a record tagged t = "str" whose    *)
(* other field says what text it holds:                                    *)
(*   cu   a sequence of UTF-16 code units (a caller's plaintext),          *)
(*   json the text JSON.stringify wrote for a value,                       *)
(*   hex  hexadecimal text (see HexText),                                  *)
(*   iso  the ISO-8601 text of an instant, in clock ticks,                 *)
(*   lit  any other fixed text,                                            *)
(*   sha256 the hexadecimal SHA-256 digest of a string.                    *)
(* undefined is Undefined.                                                 *)
(***************************************************************************)
EXTENDS Naturals, Sequences, FiniteSets, TLC

\* ------------------------------------------------------------- bounds
\* Longest caller plaintext, in code points.
MaxLen == 2
\* Last tick of the clock.
MaxTime == 1
\* Calls of encrypt in one behaviour of SpecEngine.
MaxEncrypts == 2
\* Calls of the service in one behaviour of Spec.
MaxOps == 3
\* Calls of the service in one behaviour of SpecRace.
MaxRaceOps == 2
\* Calls of the service in one behaviour of SpecFault.
MaxFaultOps == 2

\* ------------------------------------------------------ JavaScript values
Undefined == [t |-> "undefined"]

Null == [t |-> "null"]

Bool(b) == [t |-> "bool", b |-> b]

\* A number.
Num(n) == [t |-> "num", n |-> n]

IsNum(v) == "t" \in DOMAIN v /\ v.t = "num"

Lit(s) == [t |-> "str", lit |-> s]

Text(cus) == [t |-> "str", cu |-> cus]

IsString(v) == "t" \in DOMAIN v /\ v.t = "str"

IsObject(v) == "t" \notin DOMAIN v

\* obj[name]: undefined for a missing property and for a property of a
\* primitive string.
Get(obj, name) ==
  IF IsObject(obj) /\ name \in DOMAIN obj THEN obj[name] ELSE Undefined

\* obj[name] = v
Put(obj, name, v) ==
  [f \in DOMAIN obj \cup {name} |-> IF f = name THEN v ELSE obj[f]]

\* delete obj[name]
Delete(obj, name) == [f \in DOMAIN obj \ {name} |-> obj[f]]

\* The empty string: the only falsy string.
IsEmptyString(v) ==
  /\ IsString(v)
  /\ \/ "cu" \in DOMAIN v /\ v.cu = << >>
     \/ "hex" \in DOMAIN v /\ v.hex.len = 0 /\ ~v.junk

\* if (v): undefined, null, false, 0 and the empty string are falsy.
Truthy(v) ==
  /\ v \notin { Undefined, Null, Bool(FALSE), Num(0) }
  /\ ~IsEmptyString(v)

\* --------------------------------------------------------------- bytes
\* A byte string produced by the cipher or the random source is kept as
\* the first len bytes of a term, with the positions in flip altered.
Bytes(term, n) == [of |-> term, len |-> n, flip |-> {}]

\* Hexadecimal text of a byte string: Buffer.toString('hex') writes lower
\* case (upper = FALSE) and nothing else (junk = FALSE).  upper marks text
\* some of whose letters were put in upper case, junk text followed by
\* characters that are no hexadecimal digits.
HexText(bytes) == [t |-> "str", hex |-> bytes, upper |-> FALSE, junk |-> FALSE]

\* Buffer.from(text, 'hex') and update(text, 'hex'): case-insensitive, and
\* decoding stops at the first character that is no hexadecimal digit.
HexDecode(text) == text.hex

\* --------------------------------------------------------------- UTF-8
Byte(h) == [b |-> h]

IsHighSurrogate(c) == c = "d83d"

IsLowSurrogate(c) == c = "dd10"

\* The UTF-8 bytes of one code point: U+0061, U+00E9, U+4E2D, U+FFFD.
EncodeCodePoint(c) ==
  CASE c = "a"  -> << Byte("61") >>
    [] c = "e9" -> << Byte("c3"), Byte("a9") >>
    [] c = "zh" -> << Byte("e4"), Byte("b8"), Byte("ad") >>
    [] OTHER    -> << Byte("ef"), Byte("bf"), Byte("bd") >>

\* Code units to UTF-8: a surrogate pair (U+1F510) is four bytes, an
\* unpaired surrogate is written as U+FFFD.
RECURSIVE EncodeUnits(_)
EncodeUnits(cus) ==
  IF cus = << >> THEN << >>
  ELSE IF /\ IsHighSurrogate(Head(cus))
          /\ Len(cus) > 1
          /\ IsLowSurrogate(cus[2])
       THEN << Byte("f0"), Byte("9f"), Byte("94"), Byte("90") >>
              \o EncodeUnits(Tail(Tail(cus)))
       ELSE IF IsHighSurrogate(Head(cus)) \/ IsLowSurrogate(Head(cus))
            THEN EncodeCodePoint("fffd") \o EncodeUnits(Tail(cus))
            ELSE EncodeCodePoint(Head(cus)) \o EncodeUnits(Tail(cus))

\* cipher.update(plaintext, 'utf8', ...): the bytes of a string.  Text that
\* is not a caller's code units (JSON text, hexadecimal text) is ASCII and
\* is kept as one run of bytes.
UTF8Encode(str) ==
  IF "cu" \in DOMAIN str THEN EncodeUnits(str.cu) ELSE << [run |-> str] >>

StartsWith(bs, hs) ==
  /\ Len(bs) >= Len(hs)
  /\ \A i \in 1..Len(hs) : "b" \in DOMAIN bs[i] /\ bs[i].b = hs[i]

RECURSIVE DecodeBytes(_)
DecodeBytes(bs) ==
  IF bs = << >> THEN << >>
  ELSE IF StartsWith(bs, << "61" >>)
    THEN << "a" >> \o DecodeBytes(SubSeq(bs, 2, Len(bs)))
  ELSE IF StartsWith(bs, << "c3", "a9" >>)
    THEN << "e9" >> \o DecodeBytes(SubSeq(bs, 3, Len(bs)))
  ELSE IF StartsWith(bs, << "e4", "b8", "ad" >>)
    THEN << "zh" >> \o DecodeBytes(SubSeq(bs, 4, Len(bs)))
  ELSE IF StartsWith(bs, << "f0", "9f", "94", "90" >>)
    THEN << "d83d", "dd10" >> \o DecodeBytes(SubSeq(bs, 5, Len(bs)))
  ELSE IF StartsWith(bs, << "ef", "bf", "bd" >>)
    THEN << "fffd" >> \o DecodeBytes(SubSeq(bs, 4, Len(bs)))
  ELSE << "fffd" >> \o DecodeBytes(Tail(bs))

\* A decoder that reads every byte as one character (latin1): right for
\* U+0061, wrong for every character of more than one byte.
Latin1Decode(bs) ==
  IF Len(bs) = 1 /\ "run" \in DOMAIN bs[1]
  THEN bs[1].run
  ELSE Text([i \in 1..Len(bs) |-> IF bs[i].b = "61" THEN "a" ELSE bs[i].b])

\* decipher.update(..., 'utf8') + decipher.final('utf8')
UTF8Decode(bs) ==
  IF Len(bs) = 1 /\ "run" \in DOMAIN bs[1]
  THEN bs[1].run
  ELSE Text(DecodeBytes(bs))

\* ------------------------------------------------------------- AES-GCM
\* crypto.randomBytes(12)
IVLength == 12

\* cipher.getAuthTag(): 16 bytes unless authTagLength says otherwise.
TagLength == 16

\* decipher.setAuthTag accepts these lengths when createDecipheriv was given
\* no authTagLength.
GcmTagLengths == {4, 8, 12, 13, 14, 15, 16}

\* The n-th draw of the random source.
randomBytes(n) == Bytes([rnd |-> n], IVLength)

GcmCiphertext(key, iv, pt) == Bytes([k |-> key, iv |-> iv, pt |-> pt], Len(pt))

GcmTag(key, iv, ct) == Bytes([mac |-> [k |-> key, iv |-> iv, ct |-> ct]], TagLength)

\* The tag bytes given are those of the tag of (key, iv, ct), as far as
\* they go.
TagMatches(key, iv, ct, tag) ==
  /\ tag.of = GcmTag(key, iv, ct).of
  /\ tag.len <= TagLength
  /\ tag.flip \cap (1..tag.len) = {}

\* ------------------------------------------------------ EncryptionService
Iso(t) == [t |-> "str", iso |-> t]

\* new Date(text): the instant an ISO text names.
DateParse(text) == text.iso

IsHex(v) == IsString(v) /\ "hex" \in DOMAIN v

Ok(v) == [ok |-> TRUE, value |-> v]

Err(msg) == [ok |-> FALSE, error |-> msg]

\* new EncryptionService(encryptionKey, keyVersion): the key is derived
\* once, by scrypt, from the operator secret and the fixed salt.
EncryptionService(encryptionKey, keyVersion) ==
  [ algorithm  |-> "aes-256-gcm",
    key        |-> [scrypt |-> encryptionKey, salt |-> "controlvector-salt"],
    keyVersion |-> keyVersion ]

\* An encrypt that computes its IV from the plaintext.
encryptIvOfPlaintext(this, plaintext, expiresAt, n, t) ==
  LET iv        == Bytes([of |-> plaintext], IVLength)
      encrypted == GcmCiphertext(this.key, iv, UTF8Encode(plaintext))
      authTag   == GcmTag(this.key, iv, encrypted)
      result    == [ encrypted_data |-> HexText(encrypted),
                     algorithm      |-> Lit(this.algorithm),
                     iv             |-> HexText(iv),
                     created_at     |-> Iso(t),
                     auth_tag       |-> HexText(authTag),
                     key_version    |-> Lit(this.keyVersion) ]
  IN  IF expiresAt # {}
      THEN Put(result, "expires_at", Iso(CHOOSE x \in expiresAt : TRUE))
      ELSE result

\* encrypt(plaintext, expiresAt?) at time t, with the n-th draw of the
\* random source as IV.  expiresAt is {} when not given, else {instant}.
encrypt(this, plaintext, expiresAt, n, t) ==
  LET iv        == randomBytes(n)
      encrypted == GcmCiphertext(this.key, iv, UTF8Encode(plaintext))
      authTag   == GcmTag(this.key, iv, encrypted)
      result    == [ encrypted_data |-> HexText(encrypted),
                     algorithm      |-> Lit(this.algorithm),
                     iv             |-> HexText(iv),
                     created_at     |-> Iso(t),
                     auth_tag       |-> HexText(authTag),
                     key_version    |-> Lit(this.keyVersion) ]
  IN  IF expiresAt # {}
      THEN Put(result, "expires_at", Iso(CHOOSE x \in expiresAt : TRUE))
      ELSE result

ExpiredMessage == "Encrypted data has expired"

AuthMessage == "Unsupported state or unable to authenticate data"

\* What decrypt does once the expiry check has passed.
Unwrap(this, encryptedValue) ==
  LET ivText  == Get(encryptedValue, "iv")
      tagText == Get(encryptedValue, "auth_tag")
      ctText  == Get(encryptedValue, "encrypted_data")
  IN  IF ~IsHex(ivText)
      THEN Err("The first argument must be of type string")
      ELSE
        LET iv      == HexDecode(ivText)
            authTag == IF Truthy(tagText) /\ IsHex(tagText)
                       THEN HexDecode(tagText)
                       ELSE Bytes([alloc |-> 0], 0)
        IN  IF iv.len = 0
            THEN Err("Invalid initialization vector")
            ELSE IF authTag.len > 0 /\ authTag.len \notin GcmTagLengths
            THEN Err("Invalid authentication tag length")
            ELSE IF ~IsHex(ctText)
            THEN Err("The \"data\" argument must be of type string")
            ELSE IF /\ authTag.len > 0
                    /\ TagMatches(this.key, iv, HexDecode(ctText), authTag)
            THEN Ok(UTF8Decode(HexDecode(ctText).of.pt))
            ELSE Err(AuthMessage)

IsExpiredAt(encryptedValue, t) ==
  LET e == Get(encryptedValue, "expires_at")
  IN  Truthy(e) /\ "iso" \in DOMAIN e /\ DateParse(e) < t

\* A decrypt that unwraps first and looks at the expiry afterwards.
decryptExpiryLast(this, encryptedValue, t) ==
  LET r == Unwrap(this, encryptedValue)
  IN  IF ~r.ok THEN r
      ELSE IF IsExpiredAt(encryptedValue, t) THEN Err(ExpiredMessage)
      ELSE r

\* decrypt(encryptedValue) at time t: the plaintext, or the error thrown.
decrypt(this, encryptedValue, t) ==
  IF IsExpiredAt(encryptedValue, t)
  THEN Err(ExpiredMessage)
  ELSE Unwrap(this, encryptedValue)

\* A hash that gives its input back.
hashIdentity(data) == data

\* hash(data): the 64 hexadecimal characters of SHA-256(data).
hash(data) == [t |-> "str", sha256 |-> data, chars |-> 64]

\* verify(encryptedValue)
verify(this, encryptedValue, t) == decrypt(this, encryptedValue, t).ok

\* A rotateKey that keeps the version of the engine it is called on.
rotateKeySameVersion(this, newKey, newVersion) ==
  EncryptionService(newKey, this.keyVersion)

\* rotateKey(newKey, newVersion)
rotateKey(this, newKey, newVersion) == EncryptionService(newKey, newVersion)

\* The numbers of the documents encrypted field by field.
Numbers == {7, 42}

\* JSON.stringify(value): the text of a number, of a boolean, of null; the
\* text of a string, an object or an array is kept as the value it writes.
JSONstringify(value) ==
  IF IsNum(value) THEN Lit(ToString(value.n))
  ELSE IF value = Bool(TRUE) THEN Lit("true")
  ELSE IF value = Bool(FALSE) THEN Lit("false")
  ELSE IF value = Null THEN Lit("null")
  ELSE [t |-> "str", json |-> value]

\* JSON.parse of text JSON.stringify wrote for an object.
JSONparse(text) == text.json

\* JSON.parse(text) in a try block: the value the text writes, or the
\* SyntaxError for a string that is no JSON text.
TryJSONparse(text) ==
  IF "json" \in DOMAIN text THEN Ok(text.json)
  ELSE IF "lit" \in DOMAIN text /\ text.lit = "true" THEN Ok(Bool(TRUE))
  ELSE IF "lit" \in DOMAIN text /\ text.lit = "false" THEN Ok(Bool(FALSE))
  ELSE IF "lit" \in DOMAIN text /\ text.lit = "null" THEN Ok(Null)
  ELSE IF "lit" \in DOMAIN text /\ \E n \in Numbers : ToString(n) = text.lit
  THEN Ok(Num(CHOOSE n \in Numbers : ToString(n) = text.lit))
  ELSE Err("Unexpected token")

Array(items) == [t |-> "array", items |-> items]

\* The loop of encryptObject over the fields still to do; n counts the
\* random draws made so far.
RECURSIVE encryptFieldsFrom(_, _, _, _, _, _, _)
encryptFieldsFrom(this, obj, result, fields, expiresAt, n, t) ==
  IF fields = << >> THEN result
  ELSE
    LET field == Head(fields)
        v     == Get(obj, field)
    IN  IF v # Undefined /\ v # Null
        THEN
          LET plaintext == IF IsString(v) THEN v ELSE JSONstringify(v)
              r1 == Put(result, field, encrypt(this, plaintext, expiresAt, n + 1, t))
              r2 == [r1 EXCEPT !["_encrypted_fields"] =
                       Array(Append(@.items, field))]
          IN  encryptFieldsFrom(this, obj, r2, Tail(fields), expiresAt, n + 1, t)
        ELSE encryptFieldsFrom(this, obj, result, Tail(fields), expiresAt, n, t)

\* An encryptObject that records every field name it was given.
encryptObjectRecordAll(this, obj, fieldsToEncrypt, expiresAt, n, t) ==
  [ encryptFieldsFrom(this, obj, Put(obj, "_encrypted_fields", Array(<< >>)),
                      fieldsToEncrypt, expiresAt, n, t)
      EXCEPT !["_encrypted_fields"] = Array(fieldsToEncrypt) ]

\* encryptObject(obj, fieldsToEncrypt, expiresAt?)
encryptObject(this, obj, fieldsToEncrypt, expiresAt, n, t) ==
  encryptFieldsFrom(this, obj, Put(obj, "_encrypted_fields", Array(<< >>)),
                    fieldsToEncrypt, expiresAt, n, t)

\* How many of the fields encryptObject encrypts, each with its own IV.
RECURSIVE EncryptedCount(_, _)
EncryptedCount(obj, fields) ==
  IF fields = << >> THEN 0
  ELSE (IF Get(obj, Head(fields)) \notin {Undefined, Null} THEN 1 ELSE 0)
         + EncryptedCount(obj, Tail(fields))

\* The loop of decryptObject over the fields still to do: a field that
\* holds an envelope gets the plaintext, parsed as JSON where it parses; a
\* field whose decrypt throws keeps its envelope.
RECURSIVE decryptFieldsFrom(_, _, _, _)
decryptFieldsFrom(this, result, fields, t) ==
  IF fields = << >> THEN result
  ELSE
    LET field == Head(fields)
        v     == Get(result, field)
    IN  IF Truthy(v) /\ IsObject(v) /\ "encrypted_data" \in DOMAIN v
        THEN
          LET r == decrypt(this, v, t)
          IN  IF r.ok
              THEN LET parsed == TryJSONparse(r.value)
                   IN  decryptFieldsFrom(
                         this,
                         Put(result, field,
                             IF parsed.ok THEN parsed.value ELSE r.value),
                         Tail(fields), t)
              ELSE decryptFieldsFrom(this, result, Tail(fields), t)
        ELSE decryptFieldsFrom(this, result, Tail(fields), t)

\* decryptObject(obj) at time t
decryptObject(this, obj, t) ==
  LET encryptedFields == IF Truthy(Get(obj, "_encrypted_fields"))
                         THEN obj["_encrypted_fields"].items ELSE << >>
  IN  Delete(decryptFieldsFrom(this, obj, encryptedFields, t),
             "_encrypted_fields")

\* --------------------------------------------------------- DatabaseClient
\* this.config.cache.prefix
CachePrefix == "cv:context:"

\* identifiers.join(sep)
RECURSIVE join(_, _)
join(identifiers, sep) ==
  IF identifiers = << >> THEN ""
  ELSE IF Len(identifiers) = 1 THEN identifiers[1]
  ELSE identifiers[1] \o sep \o join(Tail(identifiers), sep)

\* A cache key that leaves the last identifier out.
generateCacheKeyShort(type, identifiers) ==
  CachePrefix \o type \o ":"
    \o join(SubSeq(identifiers, 1, Len(identifiers) - 1), ":")

\* generateCacheKey(type, ...identifiers)
generateCacheKey(type, identifiers) ==
  CachePrefix \o type \o ":" \o join(identifiers, ":")

\* cacheGet(key): cached ? JSON.parse(cached) : null
cacheGet(c, key) == IF key \in DOMAIN c THEN JSONparse(c[key]) ELSE Null

\* cacheSet(key, value, ttl): the entry holds JSON.stringify(value).
cacheSet(c, key, value) == Put(c, key, JSONstringify(value))

\* A cacheDelete that deletes nothing.
cacheDeleteNothing(c, key) == c

\* cacheDelete(key)
cacheDelete(c, key) == Delete(c, key)

\* findByUserAndWorkspace(table, userId, workspaceId): the matching rows.
findByUserAndWorkspace(table, userId, workspaceId) ==
  { r \in table : r.user_id = Lit(userId) /\ r.workspace_id = Lit(workspaceId) }

\* findById(table, id): the rows with this id (none: null).
findById(table, id) == { r \in table : r.id = id }

\* An insert that the table takes whenever the id is new.
AcceptsInsertById(table, data) == \A r \in table : r.id # data.id

\* secret_contexts takes a row when its id is new (PRIMARY KEY) and no row
\* has its user and workspace (unique_secret_context_user_workspace).
AcceptsInsert(table, data) ==
  \A r \in table :
    /\ r.id # data.id
    /\ ~(r.user_id = data.user_id /\ r.workspace_id = data.workspace_id)

\* insert(table, data), accepted
insert(table, data) == table \cup { data }

\* An update that removes row id.
updateRemoving(table, id, data) == { r \in table : r.id # id }

\* update(table, id, data): the columns given replace those of row id.
update(table, id, data) ==
  { IF r.id = id
    THEN [f \in DOMAIN r \cup DOMAIN data |->
            IF f \in DOMAIN data THEN data[f] ELSE r[f]]
    ELSE r : r \in table }

\* --------------------------------------------------- SecretContextService
\* A randomUUID that hands out one UUID again and again.
randomUUIDRepeated(n) == [t |-> "str", uuid |-> 0]

\* crypto.randomUUID(): the n-th UUID handed out.
randomUUID(n) == [t |-> "str", uuid |-> n]

EmptyObject == [f \in {} |-> Undefined]

SecretFields == << "credentials", "ssh_keys", "certificates" >>

\* The new context of storeCredential and createEmptySecretContext.
createEmptySecretContext(workspaceId, userId, id, t) ==
  [ id           |-> id,
    workspace_id |-> Lit(workspaceId),
    user_id      |-> Lit(userId),
    api_keys     |-> EmptyObject,
    credentials  |-> EmptyObject,
    ssh_keys     |-> EmptyObject,
    certificates |-> EmptyObject,
    created_at   |-> Iso(t),
    updated_at   |-> Iso(t) ]

\* storeCredential's encryptedCredential
EncryptedCredential(this, call, n, t) ==
  LET e == encrypt(this, call.value, call.expiresAt, n, t)
  IN  [f \in DOMAIN e \cup {"credential_type", "provider", "metadata"} |->
        CASE f = "credential_type" -> Lit(call.credentialType)
          [] f = "provider"        -> Lit(call.provider)
          [] f = "metadata"        -> [ created_by |-> Lit(call.userId),
                                        provider   |-> Lit(call.provider),
                                        key_name   |-> Lit(call.key) ]
          [] OTHER                 -> e[f]]

\* generateSSHFingerprint(publicKey): the first 32 characters of the hash.
generateSSHFingerprint(publicKey) == [hash(publicKey) EXCEPT !.chars = 32]

\* storeSSHKey's encryptedSSHKey
EncryptedSSHKey(this, call, n, t) ==
  LET e == encrypt(this, call.privateKey, {}, n, t)
  IN  [f \in DOMAIN e \cup {"key_type", "public_key", "fingerprint", "metadata"} |->
        CASE f = "key_type"      -> Lit(call.keyType)
          [] f = "public_key"    -> call.publicKey
          [] f = "fingerprint"   -> generateSSHFingerprint(call.publicKey)
          [] f = "metadata"      -> EmptyObject
          [] OTHER               -> e[f]]

\* The entries listSecrets returns for one map.  Object.entries order is
\* not kept: the array is given as the set of its items.
CredentialItems(map) ==
  { LET cred == map[key]
        item == [ key        |-> key,
                  provider   |-> Get(cred, "provider"),
                  type       |-> Get(cred, "credential_type"),
                  created_at |-> Get(cred, "created_at") ]
    IN  IF Truthy(Get(cred, "expires_at"))
        THEN Put(item, "expires_at", Get(cred, "expires_at"))
        ELSE item
    : key \in DOMAIN map }

SSHKeyItems(map) ==
  { [ key         |-> key,
      type        |-> Get(map[key], "key_type"),
      fingerprint |-> Get(map[key], "fingerprint"),
      created_at  |-> Get(map[key], "created_at") ] : key \in DOMAIN map }

CertificateItems(map) ==
  { [ key         |-> key,
      type        |-> Get(map[key], "certificate_type"),
      common_name |-> Get(map[key], "common_name"),
      expires_at  |-> Get(map[key], "expires_at") ] : key \in DOMAIN map }

\* listSecrets, once the context is loaded
listSecrets(secretContext) ==
  IF secretContext = Null
  THEN [credentials |-> {}, ssh_keys |-> {}, certificates |-> {}]
  ELSE [ credentials  |-> CredentialItems(secretContext.credentials),
         ssh_keys     |-> SSHKeyItems(secretContext.ssh_keys),
         certificates |-> CertificateItems(secretContext.certificates) ]

\* createAuditLog's row: logData with the defaults filled in.  logData
\* carries old_value_hash, new_value_hash, error_message only when set.
AuditLog(logData, id, t) ==
  [f \in DOMAIN logData \cup {"id", "ip_address", "user_agent", "timestamp"} |->
    CASE f = "id"         -> id
      [] f = "ip_address" -> "system"
      [] f = "user_agent" -> "cv-context-manager"
      [] f = "timestamp"  -> Iso(t)
      [] OTHER            -> logData[f]]

LogData(call, operation, status) ==
  [ workspace_id |-> call.workspaceId,
    user_id      |-> call.userId,
    operation    |-> operation,
    context_type |-> "secret",
    resource_key |-> call.key,
    status       |-> status ]

Return(v) == [ok |-> TRUE, value |-> v]

Throw(e) == [ok |-> FALSE, thrown |-> e]

\* ------------------------------------------------------------- tampering
\* What someone who can write a stored envelope does to one of its two
\* hexadecimal fields: alter a byte or keep only the first n bytes, and to
\* the auth tag also: put its letters in upper case, append characters that
\* are no hexadecimal digits, or remove the field.
Tampers ==
  [f : {"encrypted_data", "auth_tag"}, how : {"flip"}, n : {1}]
    \cup [f : {"encrypted_data", "auth_tag"}, how : {"cut"}, n : 0..(TagLength - 1)]
    \cup [f : {"auth_tag"}, how : {"upper", "junk", "remove"}, n : {0}]

TamperApplies(encryptedValue, k) ==
  LET text == encryptedValue[k.f]
  IN  CASE k.how = "flip"  -> text.hex.len >= k.n
        [] k.how = "cut"   -> text.hex.len > k.n
        [] OTHER           -> TRUE

Tamper(encryptedValue, k) ==
  LET text == encryptedValue[k.f]
  IN  CASE k.how = "flip" ->
             Put(encryptedValue, k.f, [text EXCEPT !.hex.flip = @ \cup {k.n}])
        [] k.how = "cut" ->
             Put(encryptedValue, k.f, [text EXCEPT !.hex.len = k.n])
        [] k.how = "upper" ->
             Put(encryptedValue, k.f, [text EXCEPT !.upper = TRUE])
        [] k.how = "junk" ->
             Put(encryptedValue, k.f, [text EXCEPT !.junk = TRUE])
        [] OTHER -> Delete(encryptedValue, k.f)

\* ------------------------------------------------------------- the state
VARIABLES
  now,      \* the clock, in ticks
  draws,    \* how many IVs the random source has handed out
  plain,    \* the plaintext the caller encrypts
  expiry,   \* the expiry the caller gives: {} or {instant}
  sealed,   \* the envelope the last encrypt call returned
  held,     \* that envelope as it is now kept by its holder
  out,      \* the result of the last decrypt or verify call
  fieldList, \* the field names the caller gives to encryptObject
  rows,     \* the Store: the rows of table secret_contexts
  cache,    \* the cache: key -> serialized value
  audit,    \* the Store: the rows of table audit_logs, in insertion order
  uuids,    \* how many UUIDs crypto.randomUUID has handed out
  proc,     \* each request's position in its operation, and its locals
  hist,     \* the completed calls, in order: what was asked and returned
  down,     \* the backends that reject every call made to them now
  faults,   \* the backend calls rejected so far: << operation number, call >>
  timers,   \* the timers the in-memory cache has pending: [key, due]
  engines,  \* the EncryptionService objects constructed, in order
  sessions,     \* DeploymentSessionService.sessions: session id -> session
  userSessions, \* DeploymentSessionService.userSessions: user id -> ids
  issued,       \* how many session ids uuidv4 has handed out
  tally,        \* per session id: the calls made that carried an error
  reply,        \* the last call on the session service and what it returned
  asked,        \* how many calls the session service has been given
  userContext,  \* the stored user context of the one user, or Null
  answer        \* the last call on the user-context service and its result

\* What no operation of the service touches: the caller of the engine, and
\* the timers of the in-memory cache.
sessionVars == << sessions, userSessions, issued, tally, reply, asked >>

contextVars == << userContext, answer >>

engineVars == << plain, expiry, sealed, held, out, fieldList, timers,
                engines, sessionVars, contextVars >>

serviceVars == << rows, cache, audit, uuids, proc, hist, down, faults >>

vars == << now, draws, plain, expiry, sealed, held, out, fieldList,
           rows, cache, audit, uuids, proc, hist, down, faults, timers,
           engines, sessions, userSessions, issued, tally, reply, asked,
           userContext, answer >>

\* A session service just constructed: no session, no index entry.
InitSessions ==
  /\ sessions = << >>
  /\ userSessions = << >>
  /\ issued = 0
  /\ tally = << >>
  /\ reply = Undefined
  /\ asked = 0

\* No user context stored yet, no call made.
InitUserContext ==
  /\ userContext = Null
  /\ answer = Undefined

\* The engine of the tests: new EncryptionService('test-key...', '1').
engine == EncryptionService("test-key-for-encryption-testing", "1")

CodePoints == { << "a" >>, << "e9" >>, << "zh" >>, << "d83d", "dd10" >> }

\* The well-formed strings of at most n code points.
RECURSIVE WellFormed(_)
WellFormed(n) ==
  IF n = 0 THEN { << >> }
  ELSE WellFormed(n - 1)
         \cup { s \o c : s \in WellFormed(n - 1), c \in CodePoints }

Plaintexts == { Text(s) : s \in WellFormed(MaxLen) }

Expiries == { {} } \cup { {t} : t \in 0..MaxTime }

\* The requests that can be in flight at once.
Procs == {1, 2}

IdleProc ==
  [ pc      |-> "idle",
    call    |-> Undefined,    \* the operation and its arguments
    payload |-> Undefined,    \* the encrypted entry of a store
    ctx     |-> Undefined,    \* secretContext
    doc     |-> Undefined,    \* encryptedContext
    logData |-> Undefined,    \* what createAuditLog will be given
    ret     |-> Undefined,    \* what the operation will return or throw
    hit     |-> FALSE,        \* whether the cache served the context
    loaded  |-> Undefined,    \* what getSecretContext returned
    decrypts  |-> 0,          \* how many times it has called decrypt
    began     |-> 0,          \* the clock when it was called
    auditFrom |-> 0,          \* how many audit rows there were then
    stored    |-> {} ]        \* the rows the Store had for its pair then

\* A caller with a plaintext and an expiry, before its first call.
InitEngine ==
  /\ now = 0
  /\ draws = 0
  /\ plain \in Plaintexts
  /\ expiry \in Expiries
  /\ sealed = Undefined
  /\ held = Undefined
  /\ out = Undefined
  /\ fieldList = << >>
  /\ rows = {}
  /\ cache = EmptyObject
  /\ audit = << >>
  /\ uuids = 0
  /\ proc = [p \in Procs |-> IdleProc]
  /\ hist = << >>
  /\ down = {}
  /\ faults = {}
  /\ timers = {}
  /\ engines = << engine >>
  /\ InitSessions
  /\ InitUserContext

Tick ==
  /\ now < MaxTime
  /\ now' = now + 1
  /\ out' = Undefined
  /\ UNCHANGED << draws, plain, expiry, sealed, held, fieldList, timers, engines, sessionVars, contextVars >>
  /\ UNCHANGED serviceVars

EncryptCall ==
  /\ draws < MaxEncrypts
  /\ draws' = draws + 1
  /\ sealed' = encrypt(engine, plain, expiry, draws + 1, now)
  /\ held' = sealed'
  /\ out' = Undefined
  /\ UNCHANGED << now, plain, expiry, fieldList, timers, engines, sessionVars, contextVars >>
  /\ UNCHANGED serviceVars

TamperStep(k) ==
  /\ sealed # Undefined
  /\ held = sealed
  /\ TamperApplies(held, k)
  /\ held' = Tamper(held, k)
  /\ out' = Undefined
  /\ UNCHANGED << now, draws, plain, expiry, sealed, fieldList, timers, engines, sessionVars, contextVars >>
  /\ UNCHANGED serviceVars

DecryptCall ==
  /\ held # Undefined
  /\ out' = [op |-> "decrypt", res |-> decrypt(engine, held, now)]
  /\ UNCHANGED << now, draws, plain, expiry, sealed, held, fieldList, timers, engines, sessionVars, contextVars >>
  /\ UNCHANGED serviceVars

VerifyCall ==
  /\ held # Undefined
  /\ out' = [op |-> "verify", valid |-> verify(engine, held, now)]
  /\ UNCHANGED << now, draws, plain, expiry, sealed, held, fieldList, timers, engines, sessionVars, contextVars >>
  /\ UNCHANGED serviceVars

NextEngine ==
  \/ Tick
  \/ EncryptCall
  \/ \E k \in Tampers : TamperStep(k)
  \/ DecryptCall
  \/ VerifyCall

SpecEngine == InitEngine /\ [][NextEngine]_vars

\* ------------------------------------------------ the service's operations
\* (W,X), (W,Y) and (V,X).
Pairs == { << "a", "bc" >>, << "a", "c" >>, << "ab", "bc" >> }

\* The value stored, with an expiry not yet past.
Secrets == { [value |-> Text(<< "a", "zh" >>), expiresAt |-> {MaxTime}] }

\* What deleteSecret is asked to delete: the credential storeCredential
\* stores, and "iv", which names no entry but a field of every envelope.
Targets == { << "credential", "openai_key" >>, << "credential", "iv" >> }

\* What the three services share, before the first call.
InitService ==
  /\ now = 0
  /\ draws = 0
  /\ plain = Undefined
  /\ expiry = {}
  /\ sealed = Undefined
  /\ held = Undefined
  /\ out = Undefined
  /\ fieldList = << >>
  /\ rows = {}
  /\ cache = EmptyObject
  /\ audit = << >>
  /\ uuids = 0
  /\ proc = [p \in Procs |-> IdleProc]
  /\ hist = << >>
  /\ down = {}
  /\ faults = {}
  /\ timers = {}
  /\ engines = << engine >>

Init ==
  /\ InitService
  /\ InitSessions
  /\ InitUserContext

InFlight == { p \in Procs : proc[p].pc # "idle" }

CacheKeyOf(call) ==
  generateCacheKey("secret_context", << call.workspaceId, call.userId >>)

IsWrite(call) == call.name \in {"storeCredential", "storeSSHKey", "deleteSecret"}

\* The map an operation on entries of this name works on.
MapOf(call) ==
  CASE call.name \in {"storeCredential", "getCredential"} -> "credentials"
    [] call.name \in {"storeSSHKey", "getSSHKey"}         -> "ssh_keys"
    [] OTHER                                              -> call.secretType \o "s"

\* A request can call: it is running no operation, and calls are left.
Idle(p) ==
  /\ proc[p].pc = "idle"
  /\ Len(hist) + Cardinality(InFlight) < MaxOps

\* A call starts: the synchronous code up to the cache probe of
\* getSecretContext.  The stores encrypt their payload first.
Begin(p, call) ==
  /\ LET payload ==
           CASE call.name = "storeCredential" ->
                  EncryptedCredential(engine, call, draws + 1, now)
             [] call.name = "storeSSHKey" ->
                  EncryptedSSHKey(engine, call, draws + 1, now)
             [] OTHER -> Undefined
     IN  /\ proc' = [proc EXCEPT ![p] =
                       [IdleProc EXCEPT !.pc = "cacheGet", !.call = call,
                                        !.payload = payload,
                                        !.began = now,
                                        !.auditFrom = Len(audit),
                                        !.stored = findByUserAndWorkspace(
                                           rows, call.userId, call.workspaceId)]]
         /\ draws' = IF payload = Undefined THEN draws ELSE draws + 1
  /\ UNCHANGED << now, down, faults, engineVars, rows, cache, audit, uuids,
                  hist >>

storeCredential(p, workspaceId, userId, key, secret) ==
  /\ Idle(p)
  /\ Begin(p, [ name |-> "storeCredential", workspaceId |-> workspaceId,
             userId |-> userId, key |-> key, value |-> secret.value,
             credentialType |-> "api_key", provider |-> "openai",
             expiresAt |-> secret.expiresAt ])

getCredential(p, workspaceId, userId, key) ==
  /\ Idle(p)
  /\ Begin(p, [ name |-> "getCredential", workspaceId |-> workspaceId,
             userId |-> userId, key |-> key ])

storeSSHKey(p, workspaceId, userId, keyName) ==
  /\ Idle(p)
  /\ Begin(p, [ name |-> "storeSSHKey", workspaceId |-> workspaceId,
             userId |-> userId, key |-> keyName,
             privateKey |-> Text(<< "e9" >>),
             publicKey |-> Lit("ssh-ed25519 AAAA"), keyType |-> "ed25519" ])

getSSHKey(p, workspaceId, userId, keyName) ==
  /\ Idle(p)
  /\ Begin(p, [ name |-> "getSSHKey", workspaceId |-> workspaceId,
             userId |-> userId, key |-> keyName ])

listSecretsCall(p, workspaceId, userId) ==
  /\ Idle(p)
  /\ Begin(p, [ name |-> "listSecrets", workspaceId |-> workspaceId,
             userId |-> userId ])

deleteSecret(p, workspaceId, userId, secretType, key) ==
  /\ Idle(p)
  /\ Begin(p, [ name |-> "deleteSecret", workspaceId |-> workspaceId,
             userId |-> userId, secretType |-> secretType, key |-> key ])

\* The operation returns or throws.  hist keeps, with the call and its
\* result, what getSecretContext gave it and the document it persisted.
Finish(p, result, hit, loaded) ==
  /\ proc' = [proc EXCEPT ![p] = IdleProc]
  /\ hist' = Append(hist, [ call |-> proc[p].call, result |-> result,
                            hit |-> hit, loaded |-> loaded,
                            saved |-> IF result.ok THEN proc[p].doc
                                      ELSE Undefined,
                            decrypts  |-> proc[p].decrypts,
                            began     |-> proc[p].began,
                            auditFrom |-> proc[p].auditFrom,
                            stored    |-> proc[p].stored ])

\* The stores, from the context loaded to the call of findById in
\* saveSecretContext: create the context if there is none, put the entry,
\* encrypt the three maps.
StoreAfterLoad(p, secretContext, hit) ==
  LET call  == proc[p].call
      fresh == secretContext = Null
      ctx0  == IF fresh
               THEN createEmptySecretContext(call.workspaceId, call.userId,
                                             randomUUID(uuids + 1), now)
               ELSE secretContext
      ctx1  == [ctx0 EXCEPT ![MapOf(call)] = Put(@, call.key, proc[p].payload),
                            !.updated_at = Iso(now)]
      data  == LogData(call, IF call.name = "storeCredential"
                             THEN "store_credential" ELSE "store_ssh_key",
                       "success")
  IN  /\ proc' = [proc EXCEPT ![p] =
                    [@ EXCEPT !.pc = "findById", !.ctx = ctx1,
                              !.doc = encryptObject(engine, ctx1, SecretFields,
                                                    {}, draws, now),
                              !.logData =
                                 IF call.name = "storeCredential"
                                 THEN Put(data, "new_value_hash", hash(call.value))
                                 ELSE data,
                              !.ret = Return(Undefined),
                              !.hit = hit, !.loaded = secretContext]]
      /\ draws' = draws + EncryptedCount(ctx1, SecretFields)
      /\ uuids' = IF fresh THEN uuids + 1 ELSE uuids
      /\ UNCHANGED hist

\* A getCredential or getSSHKey that throws where it should return null.
NotFoundThrown == Throw([message |-> "Not found"])

\* return null: the context or the entry is not there.
NotFound == Return(Null)

\* new Error(`Failed to decrypt ${what} '${key}': ${error}`): the text is
\* kept in its parts; detail is what the template made of the caught error.
DecryptError(what, key, error) ==
  [ message |-> "Failed to decrypt", what |-> what, key |-> key,
    detail |-> error ]

\* getCredential and getSSHKey, from the context loaded to the audit.
GetAfterLoad(p, secretContext, hit) ==
  LET call  == proc[p].call
      entry == IF secretContext = Null THEN Undefined
               ELSE Get(secretContext[MapOf(call)], call.key)
  IN  /\ UNCHANGED << draws, uuids >>
      /\ IF ~Truthy(entry)
         THEN Finish(p, NotFound, hit, secretContext)
         ELSE
           LET r    == decrypt(engine, entry, now)
               what == IF call.name = "getCredential"
                       THEN "credential" ELSE "SSH key"
               op   == IF call.name = "getCredential"
                       THEN "get_credential" ELSE "get_ssh_key"
               value == IF call.name = "getCredential" THEN r.value
                        ELSE [ privateKey  |-> r.value,
                               publicKey   |-> Get(entry, "public_key"),
                               fingerprint |-> Get(entry, "fingerprint") ]
           IN  /\ proc' = [proc EXCEPT ![p] =
                    [@ EXCEPT !.pc = "audit",
                              !.logData =
                                 IF r.ok THEN LogData(call, op, "success")
                                 ELSE Put(LogData(call, op, "failed"),
                                          "error_message", Lit(r.error)),
                              !.ret =
                                 IF r.ok THEN Return(value)
                                 ELSE Throw(DecryptError(what, call.key,
                                                         r.error)),
                              !.decrypts = @ + 1,
                              !.hit = hit, !.loaded = secretContext]]
               /\ UNCHANGED hist

\* deleteSecret, from the context loaded to the call of findById.
DeleteAfterLoad(p, secretContext, hit) ==
  LET call   == proc[p].call
      target == IF secretContext = Null THEN Undefined
                ELSE Get(Get(secretContext, MapOf(call)), call.key)
  IN  IF ~Truthy(target)
      THEN /\ Finish(p, Return(Bool(FALSE)), hit, secretContext)
           /\ UNCHANGED << draws, uuids >>
      ELSE
        LET ctx1 == [secretContext EXCEPT
                       ![MapOf(call)] = Delete(@, call.key),
                       !.updated_at = Iso(now)]
        IN  /\ proc' = [proc EXCEPT ![p] =
                 [@ EXCEPT !.pc = "findById", !.ctx = ctx1,
                           !.doc = encryptObject(engine, ctx1, SecretFields,
                                                 {}, draws, now),
                           !.logData =
                              Put(LogData(call, "delete_secret", "success"),
                                  "old_value_hash",
                                  hash(JSONstringify(target))),
                           !.ret = Return(Bool(TRUE)),
                           !.hit = hit, !.loaded = secretContext]]
            /\ draws' = draws + EncryptedCount(ctx1, SecretFields)
            /\ UNCHANGED << uuids, hist >>

\* What each operation does with the context getSecretContext returned,
\* up to its next call of the Store.
AfterLoad(p, secretContext, hit) ==
  CASE proc[p].call.name \in {"storeCredential", "storeSSHKey"} ->
         StoreAfterLoad(p, secretContext, hit)
    [] proc[p].call.name \in {"getCredential", "getSSHKey"} ->
         GetAfterLoad(p, secretContext, hit)
    [] proc[p].call.name = "deleteSecret" ->
         DeleteAfterLoad(p, secretContext, hit)
    [] OTHER ->
         /\ Finish(p, Return(listSecrets(secretContext)), hit, secretContext)
         /\ UNCHANGED << draws, uuids >>

\* The number the operation of request p has among the calls, when the
\* calls come one after the other.
OpOf(p) == Len(hist) + 1

\* new DatabaseError(`${operation} failed: ${error.message}`, code)
DatabaseError(operation) == [name |-> "DatabaseError", operation |-> operation]

\* A rejected call of the Store that is made again.
StoreRejectedRetried(p, operation) ==
  /\ faults' = faults \cup { << OpOf(p), operation >> }
  /\ UNCHANGED << proc, hist >>

\* A rejected call of saveSecretContext that is swallowed: the operation
\* goes on to its audit.
StoreRejectedSwallowed(p, operation) ==
  /\ faults' = faults \cup { << OpOf(p), operation >> }
  /\ IF operation = "FindByUserAndWorkspace"
     THEN Finish(p, Throw(DatabaseError(operation)), proc[p].hit,
                 proc[p].loaded)
     ELSE /\ proc' = [proc EXCEPT ![p].pc = "audit"]
          /\ UNCHANGED hist

\* A call of the Store is rejected: the DatabaseError goes up through
\* getSecretContext or saveSecretContext and the operation to the caller.
StoreRejected(p, operation) ==
  /\ faults' = faults \cup { << OpOf(p), operation >> }
  /\ Finish(p, Throw(DatabaseError(operation)), proc[p].hit, proc[p].loaded)

\* Cache calls that let the backend's error through.
CacheFailedThrown(p, operation) ==
  /\ faults' = faults \cup { << OpOf(p), operation >> }
  /\ Finish(p, Throw([name |-> "CacheError", operation |-> operation]),
            proc[p].hit, proc[p].loaded)
  /\ UNCHANGED << draws, uuids >>

\* A cache call throws: cacheGet catches and returns null, cacheSet and
\* cacheDelete catch and return, and the operation goes on.
CacheFailed(p, operation) ==
  /\ faults' = faults \cup { << OpOf(p), operation >> }
  /\ CASE operation = "cacheGet" ->
            /\ proc' = [proc EXCEPT ![p].pc = "findByUserAndWorkspace"]
            /\ UNCHANGED << draws, uuids, hist >>
       [] operation = "cacheSet" -> AfterLoad(p, proc[p].ctx, FALSE)
       [] OTHER -> Finish(p, proc[p].ret, proc[p].hit, proc[p].loaded)

\* getSecretContext: the cache probe.
CacheProbe(p) ==
  /\ proc[p].pc = "cacheGet"
  /\ IF "cache" \in down
     THEN CacheFailed(p, "cacheGet")
     ELSE
       /\ LET cached == cacheGet(cache, CacheKeyOf(proc[p].call))
          IN  IF cached # Null
              THEN AfterLoad(p, cached, TRUE)
              ELSE /\ proc' = [proc EXCEPT ![p].pc = "findByUserAndWorkspace"]
                   /\ UNCHANGED << draws, uuids, hist >>
       /\ UNCHANGED faults
  /\ UNCHANGED << now, down, engineVars, rows, cache, audit >>

\* getSecretContext: the Store read; results[0] is any of the rows found.
StoreRead(p) ==
  /\ proc[p].pc = "findByUserAndWorkspace"
  /\ IF "store" \in down
     THEN /\ StoreRejected(p, "FindByUserAndWorkspace")
          /\ UNCHANGED << draws, uuids >>
     ELSE
       /\ LET results == findByUserAndWorkspace(rows, proc[p].call.userId,
                                                proc[p].call.workspaceId)
          IN  IF results = {}
              THEN AfterLoad(p, Null, FALSE)
              ELSE /\ \E r \in results :
                        proc' = [proc EXCEPT ![p].pc = "cacheSet", ![p].ctx = r]
                   /\ UNCHANGED << draws, uuids, hist >>
       /\ UNCHANGED faults
  /\ UNCHANGED << now, down, engineVars, rows, cache, audit >>

\* getSecretContext: the cache fill, and the return.
CacheFill(p) ==
  /\ proc[p].pc = "cacheSet"
  /\ IF "cache" \in down
     THEN /\ CacheFailed(p, "cacheSet")
          /\ UNCHANGED cache
     ELSE /\ cache' = cacheSet(cache, CacheKeyOf(proc[p].call), proc[p].ctx)
          /\ AfterLoad(p, proc[p].ctx, FALSE)
          /\ UNCHANGED faults
  /\ UNCHANGED << now, down, engineVars, rows, audit >>

\* saveSecretContext: findById decides between update and insert.
SaveProbe(p) ==
  /\ proc[p].pc = "findById"
  /\ IF "store" \in down
     THEN StoreRejected(p, "FindById")
     ELSE /\ proc' = [proc EXCEPT ![p].pc =
                        IF findById(rows, proc[p].ctx.id) # {}
                        THEN "update" ELSE "insert"]
          /\ UNCHANGED << hist, faults >>
  /\ UNCHANGED << now, down, draws, engineVars, rows, cache, audit, uuids >>

\* saveSecretContext: the update or the insert; a rejected write is thrown
\* to the caller as a DatabaseError.
SaveWrite(p) ==
  /\ proc[p].pc \in {"update", "insert"}
  /\ IF \/ "store" \in down
        \/ proc[p].pc = "insert" /\ ~AcceptsInsert(rows, proc[p].doc)
        \/ proc[p].pc = "update" /\ findById(rows, proc[p].ctx.id) = {}
     THEN /\ StoreRejected(p, IF proc[p].pc = "insert"
                              THEN "Insert" ELSE "Update")
          /\ UNCHANGED rows
     ELSE /\ rows' = IF proc[p].pc = "insert"
                     THEN insert(rows, proc[p].doc)
                     ELSE update(rows, proc[p].ctx.id, proc[p].doc)
          /\ proc' = [proc EXCEPT ![p].pc = "audit"]
          /\ UNCHANGED << hist, faults >>
  /\ UNCHANGED << now, down, draws, engineVars, cache, audit, uuids >>

\* What follows createAuditLog: the writes invalidate the cache, the reads
\* return or throw.
AfterAudit(p) ==
  IF IsWrite(proc[p].call)
  THEN /\ proc' = [proc EXCEPT ![p].pc = "cacheDelete"]
       /\ UNCHANGED hist
  ELSE Finish(p, proc[p].ret, proc[p].hit, proc[p].loaded)

\* A createAuditLog that lets the rejected insert through.
AuditFailedThrown(p) ==
  /\ faults' = faults \cup { << OpOf(p), "audit" >> }
  /\ Finish(p, Throw(DatabaseError("Insert")), proc[p].hit, proc[p].loaded)

\* createAuditLog's catch: the rejected insert is logged to the console and
\* not thrown.
AuditFailed(p) ==
  /\ faults' = faults \cup { << OpOf(p), "audit" >> }
  /\ AfterAudit(p)

\* createAuditLog: the row gets its id, and is inserted.
AuditAppend(p) ==
  /\ proc[p].pc = "audit"
  /\ uuids' = uuids + 1
  /\ IF "audit" \in down
     THEN /\ AuditFailed(p)
          /\ UNCHANGED audit
     ELSE /\ audit' = Append(audit, AuditLog(proc[p].logData,
                                             randomUUID(uuids + 1), now))
          /\ AfterAudit(p)
          /\ UNCHANGED faults
  /\ UNCHANGED << now, down, draws, engineVars, rows, cache >>

\* The cache invalidation that ends a write.
CacheInvalidate(p) ==
  /\ proc[p].pc = "cacheDelete"
  /\ IF "cache" \in down
     THEN /\ CacheFailed(p, "cacheDelete")
          /\ UNCHANGED cache
     ELSE /\ cache' = cacheDelete(cache, CacheKeyOf(proc[p].call))
          /\ Finish(p, proc[p].ret, proc[p].hit, proc[p].loaded)
          /\ UNCHANGED faults
  /\ UNCHANGED << now, down, draws, engineVars, rows, audit, uuids >>

\* One request runs its operation a step.
Step(p) ==
  \/ CacheProbe(p)
  \/ StoreRead(p)
  \/ CacheFill(p)
  \/ SaveProbe(p)
  \/ SaveWrite(p)
  \/ AuditAppend(p)
  \/ CacheInvalidate(p)

\* A request calls one of the operations.  Credentials are stored, read and
\* listed for every pair; the SSH key is stored, and entries are deleted,
\* for the first pair.
Call(p) ==
  \/ \E pair \in Pairs :
       \/ \E s \in Secrets : storeCredential(p, pair[1], pair[2], "openai_key", s)
       \/ getCredential(p, pair[1], pair[2], "openai_key")
       \/ getSSHKey(p, pair[1], pair[2], "deploy")
       \/ listSecretsCall(p, pair[1], pair[2])
  \/ storeSSHKey(p, "a", "bc", "deploy")
  \/ \E target \in Targets : deleteSecret(p, "a", "bc", target[1], target[2])

\* The calls come one after the other: request 1 alone.
Next == Call(1) \/ Step(1)

Spec == Init /\ [][Next]_vars

\* Calls are left in a behaviour of SpecRace.
RaceOn == Len(hist) + Cardinality(InFlight) < MaxRaceOps

\* Two requests store for one pair, their steps interleaved.
RaceStoreCredential(p) ==
  /\ RaceOn
  /\ \E s \in Secrets : storeCredential(p, "a", "bc", "openai_key", s)

RaceStoreSSHKey(p) ==
  /\ RaceOn
  /\ storeSSHKey(p, "a", "bc", "deploy")

NextRace ==
  \E p \in Procs : RaceStoreCredential(p) \/ RaceStoreSSHKey(p) \/ Step(p)

SpecRace == Init /\ [][NextRace]_vars

\* The key names of two credentials of one pair.
KeyNames == {"openai_key", "github_token"}

\* Requests store credentials for one pair under either key name.
StoreUnderKey(p) ==
  \E key \in KeyNames, s \in Secrets : storeCredential(p, "a", "bc", key, s)

\* The stores run one after the other.
NextStores == StoreUnderKey(1) \/ Step(1)

SpecStores == Init /\ [][NextStores]_vars

\* The first store runs alone; then two requests store, their steps
\* interleaved.
NextStoresRace ==
  \E p \in Procs :
    \/ (Len(hist) = 0 => (p = 1 /\ InFlight = {})) /\ StoreUnderKey(p)
    \/ Step(p)

SpecStoresRace == Init /\ [][NextStoresRace]_vars

\* How far the clock of the in-memory cache runs, and the longest TTL.
MaxClock == 3
MaxTtl == 2

\* The value a caller caches: it tells when it was written and with what
\* TTL (0: none).
Written(at, ttl) == [writtenAt |-> Num(at), ttl |-> Num(ttl)]

\* cacheSet(key, value, ttl), in-memory: if (ttl) setTimeout(() =>
\* inMemoryCache.delete(key), ttl * 1000).
cacheSetTimeout(pending, key, ttl, at) ==
  IF ttl # 0 THEN pending \cup { [key |-> key, due |-> at + ttl] }
  ELSE pending

CacheSetCall(key, ttl) ==
  /\ cache' = cacheSet(cache, key, Written(now, ttl))
  /\ timers' = cacheSetTimeout(timers, key, ttl, now)
  /\ UNCHANGED << now, draws, plain, expiry, sealed, held, out, fieldList,
                  engines, sessionVars, contextVars,
                  rows, audit, uuids, proc, hist, down, faults >>

CacheDeleteCall(key) ==
  /\ key \in DOMAIN cache
  /\ cache' = cacheDelete(cache, key)
  /\ UNCHANGED << now, draws, engineVars, rows, audit, uuids, proc, hist,
                  down, faults >>

\* The callback of a timer that is due: inMemoryCache.delete(key).
TimerFires(timer) ==
  /\ timer \in timers
  /\ timer.due <= now
  /\ cache' = Delete(cache, timer.key)
  /\ timers' = timers \ {timer}
  /\ UNCHANGED << now, draws, plain, expiry, sealed, held, out, fieldList,
                  engines, sessionVars, contextVars,
                  rows, audit, uuids, proc, hist, down, faults >>

\* Time passes, once the timers that are due have run.
Elapse ==
  /\ now < MaxClock
  /\ \A timer \in timers : timer.due > now
  /\ now' = now + 1
  /\ UNCHANGED << draws, engineVars, serviceVars >>

\* The keys of two pairs.
CacheKeys ==
  { generateCacheKey("secret_context", pair) :
      pair \in { << "a", "bc" >>, << "a", "c" >> } }

NextCache ==
  \/ \E key \in CacheKeys, ttl \in 0..MaxTtl : CacheSetCall(key, ttl)
  \/ \E key \in CacheKeys : CacheDeleteCall(key)
  \/ \E timer \in timers : TimerFires(timer)
  \/ Elapse

SpecCache == Init /\ [][NextCache]_vars

\* How many engines there are at most, the first and the rotated ones, and
\* how many IVs are drawn at most by the service and the caller together.
MaxEngines == 2
MaxDraws == 6

\* The keys and versions rotateKey is given.
RotationKeys == {"test-key-for-encryption-testing", "rotated-key"}
RotationVersions == {"1", "2"}

\* A caller with one plaintext and no expiry, and the service with nothing
\* stored.
InitRotate ==
  /\ InitEngine
  /\ plain = Text(<< "a", "zh" >>)
  /\ expiry = {}

\* The service is used first, with the engine it was constructed with: one
\* request stores a credential, reads it, lists the secrets.
RotateServiceCall ==
  /\ out = Undefined /\ Len(engines) = 1
  /\ RaceOn
  /\ \/ \E s \in Secrets : storeCredential(1, "a", "bc", "openai_key", s)
     \/ \E key \in {"openai_key", "iv"} : getCredential(1, "a", "bc", key)
     \/ listSecretsCall(1, "a", "bc")

\* engines[i].rotateKey(newKey, newVersion)
RotateCall(i, newKey, newVersion) ==
  /\ InFlight = {}
  /\ Len(engines) < MaxEngines
  /\ engines' = Append(engines, rotateKey(engines[i], newKey, newVersion))
  /\ out' = [op |-> "rotateKey", by |-> i, newKey |-> newKey,
             newVersion |-> newVersion]
  /\ UNCHANGED << now, draws, plain, expiry, sealed, held, fieldList, timers,
                  sessionVars, contextVars >>
  /\ UNCHANGED serviceVars

\* engines[i].encrypt(plain)
EncryptWith(i) ==
  /\ InFlight = {}
  /\ draws < MaxDraws
  /\ sealed' = encrypt(engines[i], plain, expiry, draws + 1, now)
  /\ held' = sealed'
  /\ draws' = draws + 1
  /\ out' = [op |-> "encrypt", by |-> i]
  /\ UNCHANGED << now, plain, expiry, fieldList, timers, engines, sessionVars, contextVars >>
  /\ UNCHANGED serviceVars

\* engines[i].decrypt(held)
DecryptWith(i) ==
  /\ InFlight = {}
  /\ held # Undefined
  /\ out' = [op |-> "decrypt", by |-> i, res |-> decrypt(engines[i], held, now)]
  /\ UNCHANGED << now, draws, plain, expiry, sealed, held, fieldList, timers,
                  engines, sessionVars, contextVars >>
  /\ UNCHANGED serviceVars

\* engines[i].verify(held)
VerifyWith(i) ==
  /\ InFlight = {}
  /\ held # Undefined
  /\ out' = [op |-> "verify", by |-> i, valid |-> verify(engines[i], held, now)]
  /\ UNCHANGED << now, draws, plain, expiry, sealed, held, fieldList, timers,
                  engines, sessionVars, contextVars >>
  /\ UNCHANGED serviceVars

NextRotate ==
  \/ RotateServiceCall
  \/ Step(1)
  \/ \E i \in 1..Len(engines) :
       \/ \E newKey \in RotationKeys, newVersion \in RotationVersions :
            RotateCall(i, newKey, newVersion)
       \/ EncryptWith(i)
       \/ DecryptWith(i)
       \/ VerifyWith(i)

SpecRotate == InitRotate /\ [][NextRotate]_vars

\* engines[i].encrypt(plaintext); hist keeps the call and the envelope
\* returned.
EncryptIssue(i, plaintext) ==
  /\ Len(hist) < MaxEncrypts
  /\ sealed' = encrypt(engines[i], plaintext, {}, draws + 1, now)
  /\ held' = sealed'
  /\ draws' = draws + 1
  /\ out' = [op |-> "encrypt", by |-> i]
  /\ hist' = Append(hist, [ call   |-> [ name |-> "encrypt", by |-> i,
                                         plaintext |-> plaintext ],
                            result |-> Return(sealed') ])
  /\ UNCHANGED << now, plain, expiry, fieldList, timers, engines, sessionVars, contextVars >>
  /\ UNCHANGED << rows, cache, audit, uuids, proc, down, faults >>

\* Engines are made by rotateKey, with the same key or another, and each
\* encrypts either of two plaintexts.
NextIssue ==
  \E i \in 1..Len(engines) :
    \/ \E newKey \in RotationKeys, newVersion \in RotationVersions :
         RotateCall(i, newKey, newVersion)
    \/ \E plaintext \in { Text(<< "a" >>), Text(<< "a", "zh" >>) } :
         EncryptIssue(i, plaintext)

SpecIssue == InitRotate /\ [][NextIssue]_vars

\* After a first store that runs alone, two requests store and list for the
\* same pair, their steps interleaved.
NextReadRace ==
  \E p \in Procs :
    \/ /\ Len(hist) = 0 => (p = 1 /\ InFlight = {})
       /\ \E s \in Secrets : storeCredential(p, "a", "bc", "openai_key", s)
    \/ Len(hist) > 0 /\ listSecretsCall(p, "a", "bc")
    \/ Step(p)

SpecReadRace == Init /\ [][NextReadRace]_vars

\* The backends: the cache, table secret_contexts, table audit_logs.
Backends == {"cache", "store", "audit"}

\* A backend starts to reject the calls made to it: one outage, of one
\* backend, in a behaviour.
Fail(b) ==
  /\ down = {}
  /\ faults = {}
  /\ down' = down \cup {b}
  /\ UNCHANGED << now, draws, engineVars, rows, cache, audit, uuids, proc,
                  hist, faults >>

\* A backend takes calls again.
Recover(b) ==
  /\ b \in down
  /\ down' = down \ {b}
  /\ UNCHANGED << now, draws, engineVars, rows, cache, audit, uuids, proc,
                  hist, faults >>

\* Calls are left in a behaviour of SpecFault.
FaultOn == Len(hist) + Cardinality(InFlight) < MaxFaultOps

\* The key read and deleted: "iv", a field of the envelope that
\* saveSecretContext leaves in place of each map of secrets.
EnvelopeKey == "iv"

FaultStoreCredential(p) ==
  /\ FaultOn
  /\ \E s \in Secrets : storeCredential(p, "a", "bc", "openai_key", s)

FaultStoreSSHKey(p) ==
  /\ FaultOn
  /\ storeSSHKey(p, "a", "bc", "deploy")

FaultGetCredential(p) ==
  /\ FaultOn
  /\ getCredential(p, "a", "bc", EnvelopeKey)

FaultGetSSHKey(p) ==
  /\ FaultOn
  /\ getSSHKey(p, "a", "bc", EnvelopeKey)

FaultListSecrets(p) ==
  /\ FaultOn
  /\ listSecretsCall(p, "a", "bc")

FaultDeleteSecret(p) ==
  /\ FaultOn
  /\ deleteSecret(p, "a", "bc", "credential", EnvelopeKey)

\* One request after the other for one pair, while backends fail and
\* recover.
NextFault ==
  \/ \E b \in Backends : Fail(b) \/ Recover(b)
  \/ FaultStoreCredential(1)
  \/ FaultStoreSSHKey(1)
  \/ FaultGetCredential(1)
  \/ FaultGetSSHKey(1)
  \/ FaultListSecrets(1)
  \/ FaultDeleteSecret(1)
  \/ Step(1)

SpecFault == Init /\ [][NextFault]_vars

\* A credential that expires at the first instant of the clock.
ShortLived == [value |-> Text(<< "a" >>), expiresAt |-> {0}]

ExpiryStoreCredential(p) ==
  /\ Idle(p)
  /\ storeCredential(p, "a", "bc", "openai_key", ShortLived)

ExpiryGetCredential(p) ==
  /\ Idle(p)
  /\ getCredential(p, "a", "bc", "openai_key")

\* A credential with an expiry is stored and read while the clock runs.
NextExpiry ==
  \/ Tick
  \/ ExpiryStoreCredential(1)
  \/ ExpiryGetCredential(1)
  \/ Step(1)

SpecExpiry == Init /\ [][NextExpiry]_vars

\* ------------------------------------------- documents, field by field
FieldNames == {"secret_field", "config"}

\* What a field of a document holds: strings, among them the empty one and
\* strings that are JSON text, a number, a boolean, null, a structure.
FieldValues ==
  { Text(<< "a", "zh" >>), Text(<< >>), Lit("42"), Lit("true"),
    Num(42), Bool(FALSE), Null,
    [api_key |-> Lit("secret-key"), endpoint |-> Lit("https://api.example.com")] }

\* The documents: each field absent or holding one of the values, beside a
\* field that is never encrypted.
Documents ==
  { [n \in { m \in FieldNames : f[m] # Undefined } \cup {"public_field"} |->
       IF n = "public_field" THEN Lit("not-encrypted") ELSE f[n]] :
    f \in [FieldNames -> FieldValues \cup { Undefined }] }

FieldLists ==
  { << >>, << "secret_field" >>, << "config" >>,
    << "secret_field", "config" >>, << "config", "secret_field" >>,
    << "secret_field", "absent_field" >>, << "config", "config" >> }

\* A caller with a document and a list of field names, before its first
\* call.
InitFields ==
  /\ now = 0
  /\ draws = 0
  /\ plain \in Documents
  /\ fieldList \in FieldLists
  /\ expiry = {}
  /\ sealed = Undefined
  /\ held = Undefined
  /\ out = Undefined
  /\ rows = {}
  /\ cache = EmptyObject
  /\ audit = << >>
  /\ uuids = 0
  /\ proc = [p \in Procs |-> IdleProc]
  /\ hist = << >>
  /\ down = {}
  /\ faults = {}
  /\ timers = {}
  /\ engines = << engine >>
  /\ InitSessions
  /\ InitUserContext

EncryptObjectCall ==
  /\ sealed = Undefined
  /\ sealed' = encryptObject(engine, plain, fieldList, expiry, draws, now)
  /\ held' = sealed'
  /\ draws' = draws + EncryptedCount(plain, fieldList)
  /\ out' = Undefined
  /\ UNCHANGED << now, plain, expiry, fieldList, timers, engines, sessionVars, contextVars >>
  /\ UNCHANGED serviceVars

DecryptObjectCall ==
  /\ held # Undefined
  /\ out' = decryptObject(engine, held, now)
  /\ UNCHANGED << now, draws, plain, expiry, sealed, held, fieldList, timers, engines, sessionVars, contextVars >>
  /\ UNCHANGED serviceVars

NextFields == EncryptObjectCall \/ DecryptObjectCall

SpecFields == InitFields /\ [][NextFields]_vars

\* What is done to the envelope of a field: a byte altered, the auth tag or
\* the ciphertext cut short, the auth tag removed.
FieldTampers ==
  { k \in Tampers : \/ k.how \in {"flip", "remove"}
                    \/ k.how = "cut" /\ k.n \in {0, 4} }

\* A caller with a document, a list of field names and maybe an expiry.
InitFieldsFail ==
  /\ now = 0
  /\ draws = 0
  /\ plain \in Documents
  /\ fieldList \in FieldLists
  /\ expiry \in { {}, {0} }
  /\ sealed = Undefined
  /\ held = Undefined
  /\ out = Undefined
  /\ rows = {}
  /\ cache = EmptyObject
  /\ audit = << >>
  /\ uuids = 0
  /\ proc = [p \in Procs |-> IdleProc]
  /\ hist = << >>
  /\ down = {}
  /\ faults = {}
  /\ timers = {}
  /\ engines = << engine >>
  /\ InitSessions
  /\ InitUserContext

\* The holder of the encrypted document alters the envelope of one field,
\* once.
TamperField(name, k) ==
  /\ held # Undefined
  /\ held = sealed
  /\ name \in DOMAIN held
  /\ IsObject(held[name]) /\ "encrypted_data" \in DOMAIN held[name]
  /\ TamperApplies(held[name], k)
  /\ held' = Put(held, name, Tamper(held[name], k))
  /\ out' = Undefined
  /\ UNCHANGED << now, draws, plain, expiry, sealed, fieldList, timers, engines, sessionVars, contextVars >>
  /\ UNCHANGED serviceVars

NextFieldsFail ==
  \/ EncryptObjectCall
  \/ DecryptObjectCall
  \/ Tick
  \/ \E name \in FieldNames, k \in FieldTampers : TamperField(name, k)

SpecFieldsFail == InitFieldsFail /\ [][NextFieldsFail]_vars


\* ------------------------------------------- what the claims speak about
\* Two calls are made for the same (workspace, user).
SamePair(c, d) == c.workspaceId = d.workspaceId /\ c.userId = d.userId

\* The context belongs to the pair the call is made for.
BelongsTo(secretContext, call) ==
  /\ secretContext.workspace_id = Lit(call.workspaceId)
  /\ secretContext.user_id = Lit(call.userId)

\* The i-th call was a store that succeeded, the next one names the entry
\* it stored: same pair, same map, same key.
StoredJustBefore(i) ==
  /\ hist[i].call.name \in {"storeCredential", "storeSSHKey"}
  /\ hist[i].result.ok
  /\ hist[i + 1].call.name \in {"getCredential", "getSSHKey", "deleteSecret"}
  /\ SamePair(hist[i].call, hist[i + 1].call)
  /\ MapOf(hist[i].call) = MapOf(hist[i + 1].call)
  /\ hist[i].call.key = hist[i + 1].call.key

\* The call was a write that succeeded and changed the context.
WroteEntry(e) == e.result.ok /\ e.saved # Undefined

Wrote(i) == WroteEntry(hist[i])

\* An entry was stored for the pair of the i-th call, in its map and under
\* its key, by a call before it.
StoredBefore(i) ==
  \E j \in 1..(i - 1) :
    /\ hist[j].call.name \in {"storeCredential", "storeSSHKey"}
    /\ Wrote(j)
    /\ SamePair(hist[j].call, hist[i].call)
    /\ MapOf(hist[j].call) = MapOf(hist[i].call)
    /\ hist[j].call.key = hist[i].call.key

CacheKeyOfPair(pair) == generateCacheKey("secret_context", pair)

\* ---------------------------------------------------------------- claims
\* C1: a getCredential that follows a successful storeCredential of the same
\* key for the same pair returns exactly the value stored.
C1_StoreThenGet ==
  \A i \in 1..(Len(hist) - 1) :
    (StoredJustBefore(i) /\ hist[i + 1].call.name = "getCredential")
      => hist[i + 1].result = Return(hist[i].call.value)

\* C2: every context an operation works on, and every context the cache
\* holds under the key of a pair, belongs to that pair; distinct pairs have
\* distinct cache keys and distinct Store rows.
C2_ContextIsolation ==
  /\ \A i \in 1..Len(hist) :
       hist[i].loaded # Null => BelongsTo(hist[i].loaded, hist[i].call)
  /\ \A q \in Pairs :
       LET cached == cacheGet(cache, CacheKeyOfPair(q))
       IN  cached # Null =>
             BelongsTo(cached, [workspaceId |-> q[1], userId |-> q[2]])
  /\ \A q1 \in Pairs, q2 \in Pairs :
       q1 # q2 => CacheKeyOfPair(q1) # CacheKeyOfPair(q2)
  /\ \A r1 \in rows, r2 \in rows :
       r1.id = r2.id =>
         r1.workspace_id = r2.workspace_id /\ r1.user_id = r2.user_id

\* Secrets are stored for (W,X) and for (W,Y), and listSecrets for (W,Y)
\* worked on a context.
C2_Witness ==
  /\ findByUserAndWorkspace(rows, "bc", "a") # {}
  /\ \E i \in 1..Len(hist) :
       /\ hist[i].call.name = "listSecrets"
       /\ hist[i].call.workspaceId = "a" /\ hist[i].call.userId = "c"
       /\ hist[i].loaded # Null

Tampered == sealed # Undefined /\ held # sealed

\* expires_at is set and earlier than the current time.
PastExpiry(encryptedValue) ==
  /\ "expires_at" \in DOMAIN encryptedValue
  /\ encryptedValue.expires_at.iso < now

\* C4: an envelope that differs from the one encrypt produced in its
\* ciphertext or its auth tag (and is not expired) fails verify, and decrypt
\* raises an error instead of returning a plaintext.
C4_TamperDetected ==
  (Tampered /\ ~PastExpiry(held) /\ out # Undefined) =>
    IF out.op = "verify" THEN out.valid = FALSE ELSE ~out.res.ok

\* C5: decrypt of an envelope whose expiry is past fails with the Expired
\* error whatever else is wrong with the envelope; an envelope as encrypt
\* returned it, with no expiry or a later one, decrypts to the plaintext.
C5_ExpiryFirst ==
  (out # Undefined /\ out.op = "decrypt") =>
    /\ PastExpiry(held) => out.res = Err(ExpiredMessage)
    /\ (~PastExpiry(held) /\ ~Tampered) => out.res = Ok(plain)

C5_Witness ==
  /\ Tampered
  /\ PastExpiry(held)
  /\ out = [op |-> "decrypt", res |-> Err(ExpiredMessage)]

C7_DeleteAbsent ==
  \A i \in 1..Len(hist) :
    (hist[i].call.name = "deleteSecret" /\ ~StoredBefore(i)) =>
      (hist[i].result = Return(Bool(FALSE)) /\ hist[i].saved = Undefined)

\* C8: a deleteSecret that follows a successful store of the same key for
\* the same pair returns true and persists the context without the key.
C8_DeletePresent ==
  \A i \in 1..(Len(hist) - 1) :
    (StoredJustBefore(i) /\ hist[i + 1].call.name = "deleteSecret") =>
      /\ hist[i + 1].result = Return(Bool(TRUE))
      /\ hist[i + 1].saved # Undefined

\* C9: when the first call stores a credential and the second is listSecrets
\* for the same pair, the list has exactly one credential, with the key and
\* the provider stored, and no SSH key and no certificate.
C9_ListAfterStore ==
  ( /\ Len(hist) >= 2
    /\ hist[1].call.name = "storeCredential" /\ hist[1].result.ok
    /\ hist[2].call.name = "listSecrets"
    /\ SamePair(hist[1].call, hist[2].call) ) =>
      LET list == hist[2].result.value
      IN  /\ Cardinality(list.credentials) = 1
          /\ \A item \in list.credentials :
               /\ item.key = hist[1].call.key
               /\ item.provider = Lit(hist[1].call.provider)
          /\ list.ssh_keys = {}
          /\ list.certificates = {}

\* C10: the Store never holds two rows for one (workspace_id, user_id).
C10_OneRowPerPair ==
  \A r1 \in rows, r2 \in rows :
    (r1.workspace_id = r2.workspace_id /\ r1.user_id = r2.user_id) => r1 = r2

\* Two first writes both found no context; one inserted its row and the
\* other's insert was refused.
C10_Witness ==
  /\ Cardinality(rows) = 1
  /\ \E i \in 1..Len(hist), j \in 1..Len(hist) :
       /\ hist[i].loaded = Null /\ hist[i].result.ok
       /\ hist[j].loaded = Null /\ ~hist[j].result.ok

\* ---------------------------------------------------- failing backends
CacheCalls == {"cacheGet", "cacheSet", "cacheDelete"}

StoreCalls == {"FindByUserAndWorkspace", "FindById", "Insert", "Update"}

\* The calls of these names that were rejected during the i-th operation.
FaultsOf(i, names) == { f \in faults : f[1] = i /\ f[2] \in names }

\* The context the Store held for the pair of the i-th operation when it
\* was called: what getSecretContext finds when the cache holds nothing.
StoredContext(i) ==
  IF hist[i].stored = {} THEN Null ELSE CHOOSE r \in hist[i].stored : TRUE

\* What an operation returns or throws when getSecretContext gives it
\* secretContext at time t and no call of a backend is rejected after that.
ResultWith(call, secretContext, t) ==
  LET entry == IF secretContext = Null THEN Undefined
               ELSE Get(Get(secretContext, MapOf(call)), call.key)
  IN  CASE call.name \in {"storeCredential", "storeSSHKey"} ->
             Return(Undefined)
        [] call.name = "listSecrets" -> Return(listSecrets(secretContext))
        [] call.name = "deleteSecret" -> Return(Bool(Truthy(entry)))
        [] OTHER ->
             IF ~Truthy(entry) THEN Return(Null)
             ELSE LET r == decrypt(engine, entry, t)
                  IN  IF r.ok
                      THEN Return(IF call.name = "getCredential" THEN r.value
                                  ELSE [ privateKey  |-> r.value,
                                         publicKey   |-> Get(entry, "public_key"),
                                         fingerprint |-> Get(entry, "fingerprint") ])
                      ELSE Throw(DecryptError(IF call.name = "getCredential"
                                              THEN "credential" ELSE "SSH key",
                                              call.key, r.error))

\* C11: a failing cache never surfaces.  Whatever cache calls were rejected,
\* an operation that the Store did not reject returns what it returns when
\* getSecretContext finds the cache empty and reads the Store: the failed
\* cacheGet was a miss, the failed cacheSet and cacheDelete did nothing more.
C11_CacheFailureSilent ==
  \A i \in 1..Len(hist) :
    FaultsOf(i, StoreCalls) = {} =>
      hist[i].result = ResultWith(hist[i].call, StoredContext(i), hist[i].began)

\* C11: the cache was down during two operations: the store's cacheDelete
\* was rejected, then the read's cacheGet and cacheSet, and the read found
\* the stored row.
C11_Witness ==
  /\ Len(hist) = 2
  /\ << 1, "cacheDelete" >> \in faults
  /\ { << 2, "cacheGet" >>, << 2, "cacheSet" >> } \subseteq faults
  /\ hist[2].stored # {}
  /\ hist[2].call.name \in {"getCredential", "listSecrets"}

\* C12: a rejected audit insert changes nothing else.  An operation whose
\* audit row was rejected, and no other call, returns or throws what it
\* does from the context it loaded; once it has completed, the document a
\* write persisted is in the Store and the cache holds nothing for the pair.
C12_AuditFailureSilent ==
  \A i \in 1..Len(hist) :
    (FaultsOf(i, {"audit"}) # {} /\ FaultsOf(i, StoreCalls \cup CacheCalls) = {})
      => /\ hist[i].result =
              ResultWith(hist[i].call, hist[i].loaded, hist[i].began)
         /\ (i = Len(hist) /\ InFlight = {} /\ IsWrite(hist[i].call)) =>
              /\ hist[i].saved \in rows
              /\ cacheGet(cache, CacheKeyOf(hist[i].call)) = Null

\* C12: the audit table rejected the row of a store, which persisted its
\* document all the same, and the row of the read that followed, which
\* threw its own error all the same.
C12_Witness ==
  /\ Len(hist) = 2 /\ InFlight = {}
  /\ { << 1, "audit" >>, << 2, "audit" >> } \subseteq faults
  /\ hist[1].call.name \in {"storeCredential", "storeSSHKey"}
  /\ hist[1].saved \in rows
  /\ hist[2].call.name \in {"getCredential", "getSSHKey"}
  /\ ~hist[2].result.ok
  /\ audit = << >>

\* ------------------------------------------------------- the audit log
\* The calls made so far, completed or running.
CallsMade ==
  { hist[i].call : i \in 1..Len(hist) } \cup { proc[p].call : p \in InFlight }

\* The plaintext a store was given.
PlaintextOf(call) ==
  CASE call.name = "storeCredential" -> { call.value }
    [] call.name = "storeSSHKey"     -> { call.privateKey }
    [] OTHER                         -> {}

SecretFieldSet == { SecretFields[n] : n \in 1..Len(SecretFields) }

\* The envelopes made so far that are still to be seen: the entries the
\* running stores encrypted, and the encrypted maps of the documents that are
\* being persisted, were persisted or are cached.
Envelopes ==
  LET docs == rows \cup { hist[i].saved : i \in 1..Len(hist) }
                   \cup { proc[p].doc : p \in InFlight }
                   \cup { JSONparse(cache[k]) : k \in DOMAIN cache }
  IN  ({ proc[p].payload : p \in InFlight } \ { Undefined })
        \cup { d[f] : d \in (docs \ { Undefined }), f \in SecretFieldSet }

\* Plaintexts and ciphertexts: the values given to the stores, the
\* envelopes, their JSON texts and their ciphertext fields.
SecretMaterial ==
  UNION { PlaintextOf(c) : c \in CallsMade }
    \cup Envelopes
    \cup { JSONstringify(e) : e \in Envelopes }
    \cup { e.encrypted_data : e \in Envelopes }

\* The texts the engine's errors carry.
EngineMessages ==
  { Lit(ExpiredMessage), Lit(AuthMessage),
    Lit("The first argument must be of type string"),
    Lit("Invalid initialization vector"),
    Lit("Invalid authentication tag length"),
    Lit("The \"data\" argument must be of type string") }

\* C13: no audit row holds a plaintext or a ciphertext.  In every row the
\* resource key is the key name of a call, the two hash fields, where set,
\* are SHA-256 hashes, the error message, where set, is the text of an
\* engine error, and none of these is a value given to a store, an envelope
\* or a ciphertext.
C13_AuditHoldsNoSecret ==
  \A n \in 1..Len(audit) :
    LET row == audit[n]
    IN  /\ row.resource_key \in { c.key : c \in { d \in CallsMade :
                                                    "key" \in DOMAIN d } }
        /\ row.status \in {"success", "failed"}
        /\ \A f \in {"old_value_hash", "new_value_hash"} \cap DOMAIN row :
             /\ "sha256" \in DOMAIN row[f] /\ row[f].chars = 64
             /\ row[f] \notin SecretMaterial
        /\ "error_message" \in DOMAIN row =>
             /\ row.error_message \in EngineMessages
             /\ row.error_message \notin SecretMaterial

\* C13: the log holds the row of a store, with the hash of the value, and
\* the row of a read whose decrypt failed, with the engine's message.
C13_Witness ==
  /\ \E n \in 1..Len(audit) :
       /\ audit[n].operation = "store_credential"
       /\ "new_value_hash" \in DOMAIN audit[n]
  /\ \E n \in 1..Len(audit) :
       /\ audit[n].status = "failed"
       /\ "error_message" \in DOMAIN audit[n]

\* Where the audit rows of the i-th operation end, when the calls come one
\* after the other: where those of the next call begin.
AuditEnd(i) ==
  IF i < Len(hist) THEN hist[i + 1].auditFrom
  ELSE IF InFlight # {} THEN proc[CHOOSE p \in InFlight : TRUE].auditFrom
  ELSE Len(audit)

\* The audit rows the i-th operation appended.
AuditRowsOf(i) ==
  { audit[n] : n \in (hist[i].auditFrom + 1)..AuditEnd(i) }

\* C14: every store that succeeded, of a credential or of an SSH key,
\* appended an audit row whose new_value_hash is the hash of the plaintext
\* it was given.
C14_StoreAuditsHash ==
  \A i \in 1..Len(hist) :
    (hist[i].call.name \in {"storeCredential", "storeSSHKey"} /\ Wrote(i))
      => \E row \in AuditRowsOf(i), v \in PlaintextOf(hist[i].call) :
           /\ "new_value_hash" \in DOMAIN row
           /\ row.new_value_hash = hash(v)

\* C14, for storeCredential alone: its audit row carries the hash of the
\* value stored.
C14_CredentialAuditsHash ==
  \A i \in 1..Len(hist) :
    (hist[i].call.name = "storeCredential" /\ Wrote(i))
      => \E row \in AuditRowsOf(i) :
           /\ "new_value_hash" \in DOMAIN row
           /\ row.new_value_hash = hash(hist[i].call.value)

\* C15: a getCredential or getSSHKey for an entry a store has just stored
\* appends exactly one audit row: with status success and no value hash
\* when it returns, with status failed when it throws.
C15_ReadAudited ==
  \A i \in 1..(Len(hist) - 1) :
    (StoredJustBefore(i) /\ hist[i + 1].call.name \in {"getCredential", "getSSHKey"})
      => /\ AuditEnd(i + 1) - hist[i + 1].auditFrom = 1
         /\ \A row \in AuditRowsOf(i + 1) :
              IF hist[i + 1].result.ok
              THEN /\ row.status = "success"
                   /\ {"old_value_hash", "new_value_hash"} \cap DOMAIN row = {}
              ELSE row.status = "failed"

\* C15, for the reads that reach their decrypt call: each appended one audit
\* row, success without value hashes when it returned, failed when it threw,
\* unless the audit table rejected the row.
C15_DecryptAudited ==
  \A i \in 1..Len(hist) :
    (hist[i].decrypts > 0 /\ FaultsOf(i, {"audit"}) = {})
      => /\ AuditEnd(i) - hist[i].auditFrom = 1
         /\ \A row \in AuditRowsOf(i) :
              IF hist[i].result.ok
              THEN /\ row.status = "success"
                   /\ {"old_value_hash", "new_value_hash"} \cap DOMAIN row = {}
              ELSE row.status = "failed"

\* The i-th operation threw the error of a failed decrypt.
DecryptThrown(i) ==
  /\ ~hist[i].result.ok
  /\ "message" \in DOMAIN hist[i].result.thrown
  /\ hist[i].result.thrown.message = "Failed to decrypt"

\* C16: the error a getCredential or getSSHKey throws when decrypt fails
\* names the key and carries no text of the engine's error.
C16_ErrorHidesDiagnostic ==
  \A i \in 1..Len(hist) :
    DecryptThrown(i) =>
      /\ hist[i].result.thrown.key = hist[i].call.key
      /\ Lit(hist[i].result.thrown.detail) \notin EngineMessages
      /\ Lit(hist[i].result.thrown.detail) \notin SecretMaterial

\* The i-th call stored a credential whose expiry was past when the next
\* call, a getCredential of the same key for the same pair, was made.
ExpiredAtRead(i) ==
  /\ StoredJustBefore(i)
  /\ hist[i].call.name = "storeCredential"
  /\ hist[i + 1].call.name = "getCredential"
  /\ \E e \in hist[i].call.expiresAt : e < hist[i + 1].began

\* C17: a getCredential for a stored credential whose expiry is past
\* reports the credential as absent, and has called decrypt once.
C17_ExpiredIsAbsent ==
  \A i \in 1..(Len(hist) - 1) :
    ExpiredAtRead(i) =>
      /\ hist[i + 1].result = NotFound
      /\ hist[i + 1].decrypts = 1

\* The i-th call is a getCredential or getSSHKey that was given no context,
\* or a context with no entry under its key.
FoundNothing(i) ==
  /\ hist[i].call.name \in {"getCredential", "getSSHKey"}
  /\ \/ hist[i].loaded = Null
     \/ /\ IsObject(hist[i].loaded)
        /\ ~Truthy(Get(Get(hist[i].loaded, MapOf(hist[i].call)),
                       hist[i].call.key))

C19_StoreErrorPropagates ==
  \A f \in faults :
    f[2] \in StoreCalls =>
      /\ f[1] <= Len(hist)
      /\ hist[f[1]].result = Throw(DatabaseError(f[2]))
      /\ FaultsOf(f[1], StoreCalls) = { f }

\* C19: the Store rejected the insert of a first store, which left no row,
\* and the read of the context in the call that followed.
C19_Witness ==
  /\ Len(hist) = 2
  /\ rows = {}
  /\ << 1, "Insert" >> \in faults
  /\ << 2, "FindByUserAndWorkspace" >> \in faults
  /\ ~hist[1].result.ok /\ ~hist[2].result.ok

\* A string that JSON.parse reads as a number, a boolean or null.
IsJsonText(v) == IsString(v) /\ TryJSONparse(v).ok

\* C20: decryptObject(encryptObject(doc, F)) is doc: every field is back
\* with its value and its type, and _encrypted_fields is gone.
C20_FieldRoundTrip == out # Undefined => out = plain

\* C20, for the documents none of whose encrypted fields is a string that
\* is JSON text: these come back as they were.
C20_RoundTripButJsonText ==
  (out # Undefined
     /\ \A n \in 1..Len(fieldList) : ~IsJsonText(Get(plain, fieldList[n])))
    => out = plain

\* The field of the document is present and not null.
Encryptable(doc, name) == Get(doc, name) \notin { Undefined, Null }

\* The value is an envelope that decrypts to the serialized form of v.
EnvelopeOf(e, v) ==
  /\ IsObject(e) /\ "encrypted_data" \in DOMAIN e
  /\ decrypt(engine, e, now) =
       Ok(IF IsString(v) THEN v ELSE JSONstringify(v))

\* C21: encryptObject changes only the named fields that are present and not
\* null.  Each of them holds an envelope of its serialized value, every other
\* field of the output is the input's, the output has the input's fields and
\* _encrypted_fields, which lists, in the order given, the named fields that
\* were encrypted; the caller's document is as it was.
C21_EncryptObjectFrame ==
  [][ sealed' # sealed =>
        /\ plain' = plain
        /\ DOMAIN sealed' = DOMAIN plain \cup {"_encrypted_fields"}
        /\ sealed'["_encrypted_fields"] =
             Array(SelectSeq(fieldList, LAMBDA name : Encryptable(plain, name)))
        /\ \A name \in DOMAIN plain :
             IF \E n \in 1..Len(fieldList) :
                  fieldList[n] = name /\ Encryptable(plain, name)
             THEN EnvelopeOf(sealed'[name], plain[name])
             ELSE sealed'[name] = plain[name] ]_vars

\* C21: encryptObject was given a list that names a field holding a string,
\* a field holding null and no other; the first was encrypted.
C21_Witness ==
  /\ sealed # Undefined
  /\ fieldList = << "secret_field", "config" >>
  /\ plain = [ public_field |-> Lit("not-encrypted"),
               secret_field |-> Text(<< "a", "zh" >>), config |-> Null ]
  /\ sealed["_encrypted_fields"] = Array(<< "secret_field" >>)

\* The names encryptObject recorded.
Recorded == sealed["_encrypted_fields"].items

\* The decrypt of a recorded field of the document held fails now.
FieldFails(name) == ~decrypt(engine, held[name], now).ok

\* C22: decryptObject does not raise when the decrypt of a recorded field
\* fails: it returns a document where that field is the envelope it was
\* given, every recorded field whose decrypt succeeds has its original
\* value, and _encrypted_fields is gone.
C22_FieldFailureTolerated ==
  (out # Undefined /\ \E m \in 1..Len(Recorded) : FieldFails(Recorded[m])) =>
    /\ "_encrypted_fields" \notin DOMAIN out
    /\ \A n \in 1..Len(Recorded) :
         LET name == Recorded[n]
         IN  IF FieldFails(name) THEN out[name] = held[name]
             ELSE out[name] = plain[name]

\* C22, for the documents none of whose recorded fields is a string that is
\* JSON text.
C22_ToleratedButJsonText ==
  (out # Undefined
     /\ \E m \in 1..Len(Recorded) : FieldFails(Recorded[m])
     /\ \A n \in 1..Len(Recorded) : ~IsJsonText(plain[Recorded[n]]))
    => /\ "_encrypted_fields" \notin DOMAIN out
       /\ \A n \in 1..Len(Recorded) :
            LET name == Recorded[n]
            IN  IF FieldFails(name) THEN out[name] = held[name]
                ELSE out[name] = plain[name]

\* A storeCredential or storeSSHKey is what request p runs.
Storing(p) ==
  /\ proc[p].pc # "idle"
  /\ proc[p].call.name \in {"storeCredential", "storeSSHKey"}

\* Where a request is while getSecretContext loads its context.
Loading == {"cacheGet", "findByUserAndWorkspace", "cacheSet"}

\* Request p encrypts its payload, persists its context, appends its audit
\* row, invalidates its cache entry in this step.
EncryptsPayload(p) ==
  /\ proc[p].pc = "idle" /\ proc'[p].pc # "idle"
  /\ proc'[p].payload # Undefined
Persists(p) == proc[p].pc \in {"update", "insert"} /\ rows' # rows
AppendsAudit(p) == proc[p].pc = "audit" /\ Len(audit') = Len(audit) + 1
Invalidates(p) ==
  /\ proc[p].pc = "cacheDelete"
  /\ cache' = cacheDelete(cache, CacheKeyOf(proc[p].call))

\* C23: a storeCredential or storeSSHKey loads or creates the context, then
\* encrypts the payload, then persists the context, then invalidates the
\* cache entry, and only then appends the audit row: the payload is not
\* encrypted while the load is still to come, the context is persisted with
\* the payload encrypted, and the audit row is appended with no cache
\* invalidation still to come.
C23_WriteOrder ==
  [][ \A p \in Procs :
        /\ EncryptsPayload(p) => proc'[p].pc \notin Loading
        /\ (Storing(p) /\ Persists(p)) => proc[p].payload # Undefined
        /\ (Storing(p) /\ AppendsAudit(p)) => proc'[p].pc # "cacheDelete"
    ]_vars

\* C23, in the order of the code: the payload is encrypted first, with the
\* load still to come; then the context is loaded or created, then
\* persisted; then the audit row is appended, with the cache invalidation
\* still to come; the cache entry is invalidated last.
C23_CodeOrder ==
  [][ \A p \in Procs :
        /\ EncryptsPayload(p) => proc'[p].pc = "cacheGet"
        /\ (Storing(p) /\ Persists(p)) =>
             /\ proc[p].payload # Undefined
             /\ proc[p].loaded # Undefined
             /\ proc'[p].pc = "audit"
        /\ (Storing(p) /\ AppendsAudit(p)) =>
             /\ proc[p].doc \in rows
             /\ proc'[p].pc = "cacheDelete"
        /\ (Storing(p) /\ Invalidates(p)) =>
             /\ proc[p].doc \in rows
             /\ proc'[p].pc = "idle"
    ]_vars

\* C23, the first departure alone: the audit row of a store is appended
\* with no cache invalidation still to come.
C23_AuditAfterInvalidate ==
  [][ \A p \in Procs :
        (Storing(p) /\ AppendsAudit(p)) => proc'[p].pc # "cacheDelete" ]_vars

\* C23, the second departure alone: the payload is encrypted with the
\* context loaded.
C23_EncryptAfterLoad ==
  [][ \A p \in Procs : EncryptsPayload(p) => proc'[p].pc \notin Loading ]_vars

\* C24: verify does not raise: it returns true when decrypt of the same
\* envelope by the same engine at the same time returns a plaintext and
\* false when it does not; so it returns false for an envelope whose expiry
\* is past, and false for an envelope that was tampered with.
C24_VerifyMatchesDecrypt ==
  (out # Undefined /\ out.op = "verify") =>
    /\ out.valid \in BOOLEAN
    /\ out.valid = decrypt(engine, held, now).ok
    /\ PastExpiry(held) => ~out.valid
    /\ Tampered => ~out.valid

\* C24, but for the tampered envelopes: verify is true exactly when decrypt
\* returns a plaintext, false for an expired envelope, and false for every
\* tampered envelope that decrypt rejects.
C24_VerifyIsDecryptOk ==
  (out # Undefined /\ out.op = "verify") =>
    /\ out.valid \in BOOLEAN
    /\ out.valid = decrypt(engine, held, now).ok
    /\ PastExpiry(held) => ~out.valid
    /\ (Tampered /\ ~decrypt(engine, held, now).ok) => ~out.valid

\* The key of the i-th call is present: a store before it wrote an entry for
\* its pair, in its map and under its key, and no deleteSecret since then
\* returned true for that entry.
PresentKey(i) ==
  \E j \in 1..(i - 1) :
    /\ hist[j].call.name \in {"storeCredential", "storeSSHKey"}
    /\ Wrote(j)
    /\ SamePair(hist[j].call, hist[i].call)
    /\ MapOf(hist[j].call) = MapOf(hist[i].call)
    /\ hist[j].call.key = hist[i].call.key
    /\ \A k \in (j + 1)..(i - 1) :
         ~ /\ hist[k].call.name = "deleteSecret"
           /\ SamePair(hist[k].call, hist[i].call)
           /\ MapOf(hist[k].call) = MapOf(hist[i].call)
           /\ hist[k].call.key = hist[i].call.key
           /\ hist[k].result = Return(Bool(TRUE))

\* The i-th operation appended exactly one audit row, and the row carries
\* the workspace, the user and the key of the call.
OneAuditRow(i) ==
  /\ AuditEnd(i) - hist[i].auditFrom = 1
  /\ \A row \in AuditRowsOf(i) :
       /\ row.workspace_id = hist[i].call.workspaceId
       /\ row.user_id = hist[i].call.userId
       /\ row.resource_key = hist[i].call.key

\* No step changes or removes an audit row there is.
AuditAppendOnly ==
  /\ Len(audit') >= Len(audit)
  /\ SubSeq(audit', 1, Len(audit)) = audit

\* C25: no step of an operation changes or removes an audit row; and, the
\* audit table rejecting nothing, every store that succeeded, every
\* getCredential and getSSHKey of a present key, and every deleteSecret that
\* returned true appended exactly one row with the workspace, the user and
\* the key of the call.
C25_AuditComplete ==
  /\ [][AuditAppendOnly]_vars
  /\ [](\A i \in 1..Len(hist) :
          ( \/ hist[i].call.name \in {"storeCredential", "storeSSHKey"}
               /\ Wrote(i)
            \/ hist[i].call.name \in {"getCredential", "getSSHKey"}
               /\ PresentKey(i)
            \/ hist[i].call.name = "deleteSecret"
               /\ hist[i].result = Return(Bool(TRUE)) )
            => OneAuditRow(i))

\* C25, for the operations that found an entry under their key in the
\* context they were given: the log is append-only, and every store that
\* succeeded, every read that reached its decrypt call and every
\* deleteSecret that returned true appended exactly one such row.
C25_AuditCompleteWhereFound ==
  /\ [][AuditAppendOnly]_vars
  /\ [](\A i \in 1..Len(hist) :
          ( \/ hist[i].call.name \in {"storeCredential", "storeSSHKey"}
               /\ Wrote(i)
            \/ hist[i].call.name \in {"getCredential", "getSSHKey"}
               /\ hist[i].decrypts > 0
            \/ hist[i].call.name = "deleteSecret"
               /\ hist[i].result = Return(Bool(TRUE)) )
            => OneAuditRow(i))

\* The credentials map of the context persisted for the pair, its envelope
\* decrypted, has an entry under the key.
PersistedEntry(workspaceId, userId, key) ==
  \E r \in findByUserAndWorkspace(rows, userId, workspaceId) :
    Truthy(Get(Get(decryptObject(engine, r, now), "credentials"), key))

\* The i-th and the j-th call are successful stores of credentials for one
\* pair under different keys.
TwoStores(i, j) ==
  /\ hist[i].call.name = "storeCredential" /\ Wrote(i)
  /\ hist[j].call.name = "storeCredential" /\ Wrote(j)
  /\ SamePair(hist[i].call, hist[j].call)
  /\ hist[i].call.key # hist[j].call.key

\* C26: when two storeCredential calls for one pair with different key names
\* run one after the other and both succeed, the context persisted has both
\* entries (the loss of one is reachable only when the two run
\* concurrently).
C26_NoLossInSequence ==
  (InFlight = {} /\ Len(hist) >= 2 /\ TwoStores(Len(hist) - 1, Len(hist))) =>
    LET c == hist[Len(hist) - 1].call
        d == hist[Len(hist)].call
    IN  /\ PersistedEntry(c.workspaceId, c.userId, c.key)
        /\ PersistedEntry(d.workspaceId, d.userId, d.key)

\* C26, what two stores in sequence leave: the entry of the second, and
\* with it the fields of the envelope the first left, not the first's entry.
C26_SequenceKeepsLast ==
  (InFlight = {} /\ Len(hist) >= 2 /\ TwoStores(Len(hist) - 1, Len(hist))) =>
    LET c == hist[Len(hist) - 1].call
        d == hist[Len(hist)].call
    IN  /\ ~PersistedEntry(c.workspaceId, c.userId, c.key)
        /\ PersistedEntry(d.workspaceId, d.userId, d.key)
        /\ PersistedEntry(d.workspaceId, d.userId, "encrypted_data")

\* A timer removes the entry under the key in this step.
RemovedByTimer(key) ==
  /\ timers' # timers /\ timers' \subseteq timers
  /\ key \in DOMAIN cache /\ key \notin DOMAIN cache'

\* C27: a timer of the in-memory cache removes an entry only once the TTL
\* of the cacheSet that wrote that entry has elapsed since that write: never
\* an entry written without a TTL, never an entry before its own TTL is
\* over.
C27_TimerRemovesExpiredOnly ==
  [][ \A key \in DOMAIN cache :
        RemovedByTimer(key) =>
          LET entry == cacheGet(cache, key)
          IN  /\ entry.ttl # Num(0)
              /\ now >= entry.writtenAt.n + entry.ttl.n ]_vars

\* C27, what the timers do: a timer runs no earlier than the TTL after the
\* cacheSet that scheduled it, and removes whatever entry its key has then;
\* no cacheSet removes a timer.
C27_TimerRemovesKey ==
  [][ /\ \A timer \in timers \ timers' :
           /\ timer.due <= now
           /\ timer.key \notin DOMAIN cache'
      /\ (cache' # cache /\ DOMAIN cache \subseteq DOMAIN cache')
           => timers \subseteq timers'
      /\ (DOMAIN cache' # DOMAIN cache /\ timers' = timers)
           => timers \subseteq timers' ]_vars

\* The ids of the rows of a table.
IdsOf(table) == { r.id : r \in table }

\* C28: no step of an operation removes a row of secret_contexts; and a row
\* is created only by a storeCredential or storeSSHKey for a pair that has
\* no row: getCredential, getSSHKey, listSecrets and deleteSecret create
\* none, and a deleteSecret that removed an entry leaves the row.
C28_RowsCreatedByFirstWrite ==
  [][ /\ IdsOf(rows) \subseteq IdsOf(rows')
      /\ \A r \in rows' :
           r.id \notin IdsOf(rows) =>
             \E p \in Procs :
               /\ proc[p].pc # "idle"
               /\ proc[p].call.name \in {"storeCredential", "storeSSHKey"}
               /\ BelongsTo(r, proc[p].call)
               /\ findByUserAndWorkspace(rows, proc[p].call.userId,
                                         proc[p].call.workspaceId) = {}
    ]_vars

\* A deleteSecret returned true and the row of its pair is there; a
\* getCredential found no context and its pair has no row.
C28_Witness ==
  /\ \E i \in 1..Len(hist) :
       /\ hist[i].call.name = "deleteSecret"
       /\ hist[i].result = Return(Bool(TRUE))
       /\ findByUserAndWorkspace(rows, hist[i].call.userId,
                                 hist[i].call.workspaceId) # {}
  /\ \E i \in 1..Len(hist) :
       /\ hist[i].call.name = "getCredential"
       /\ hist[i].loaded = Null
       /\ findByUserAndWorkspace(rows, hist[i].call.userId,
                                 hist[i].call.workspaceId) = {}

\* The last call made on an engine was this operation.
LastOp(op) == "op" \in DOMAIN out /\ out.op = op

\* C29: the envelope encrypt returns has the key_version of the engine it
\* was called on (the service's payloads and persisted maps that of the
\* service's engine); rotateKey returns an engine with the key and version
\* it was given and changes no engine there is; and decrypt, verify,
\* getCredential and listSecrets change no envelope held or stored.
C29_KeyVersionTagged ==
  /\ [](LastOp("encrypt") =>
          sealed.key_version = Lit(engines[out.by].keyVersion))
  /\ [](\A p \in Procs :
          proc[p].payload # Undefined =>
            proc[p].payload.key_version = Lit(engines[1].keyVersion))
  /\ [](\A r \in rows, n \in 1..Len(SecretFields) :
          r[SecretFields[n]].key_version = Lit(engines[1].keyVersion))
  /\ [](LastOp("rotateKey") =>
          LET made == engines[Len(engines)]
          IN  /\ made.keyVersion = out.newVersion
              /\ made.key = EncryptionService(out.newKey, out.newVersion).key
              /\ made.algorithm = engines[out.by].algorithm)
  /\ [][ \A i \in 1..Len(engines) :
           i <= Len(engines') /\ engines'[i] = engines[i] ]_vars
  /\ [][ (out' # out /\ out'.op \in {"decrypt", "verify"}) =>
           (held' = held /\ sealed' = sealed) ]_vars
  /\ [][ \A p \in Procs :
           (proc[p].pc # "idle"
              /\ proc[p].call.name \in {"getCredential", "listSecrets"}) =>
             /\ rows' = rows
             /\ \A key \in DOMAIN cache' :
                  key \in DOMAIN cache \/ cacheGet(cache', key) \in rows
         ]_vars

\* After the service stored and listed, the engine was rotated to version 2
\* and another key; the new engine encrypted and decrypted its envelope,
\* tagged 2, and the first engine is as it was.
C29_Witness ==
  /\ Len(hist) = 2 /\ hist[2].call.name = "listSecrets" /\ rows # {}
  /\ Len(engines) = 2
  /\ engines[1] = engine
  /\ engines[2].keyVersion = "2" /\ engines[2].key # engine.key
  /\ LastOp("decrypt") /\ out.by = 2 /\ out.res.ok
  /\ sealed.key_version = Lit("2")

\* C30: two encrypt calls on engines that share a key return envelopes with
\* different IVs, whatever the plaintexts; so two calls with the same
\* plaintext return different envelopes.
C30_IvFresh ==
  \A i \in 1..Len(hist), j \in 1..Len(hist) :
    ( /\ i < j
      /\ hist[i].call.name = "encrypt" /\ hist[j].call.name = "encrypt"
      /\ engines[hist[i].call.by].key = engines[hist[j].call.by].key ) =>
        /\ hist[i].result.value.iv # hist[j].result.value.iv
        /\ hist[i].result.value # hist[j].result.value

\* Two engines with one key (the second made by rotateKey) each encrypted
\* the same plaintext, and the two envelopes have different IVs.
C30_Witness ==
  /\ Len(hist) = 2
  /\ hist[1].call.plaintext = hist[2].call.plaintext
  /\ hist[1].call.by # hist[2].call.by
  /\ engines[hist[1].call.by].key = engines[hist[2].call.by].key
  /\ hist[1].result.value.iv # hist[2].result.value.iv

\* C31: the context getSecretContext returns on a cache miss is the row of
\* the Store with the field encryption of saveSecretContext reversed: it
\* has no _encrypted_fields, and its credentials, ssh_keys and certificates
\* are maps of entries, none of them an envelope.
C31_LoadReversesSave ==
  \A i \in 1..Len(hist) :
    (~hist[i].hit /\ hist[i].loaded \notin {Null, Undefined}) =>
      /\ "_encrypted_fields" \notin DOMAIN hist[i].loaded
      /\ \A n \in 1..Len(SecretFields) :
           "encrypted_data" \notin DOMAIN hist[i].loaded[SecretFields[n]]
      /\ hist[i].loaded = decryptObject(engine, StoredContext(i), hist[i].began)

\* C31, what the load returns instead: the row as persisted, each of the
\* three maps an envelope, with the bookkeeping field.
C31_LoadReturnsRow ==
  \A i \in 1..Len(hist) :
    (~hist[i].hit /\ hist[i].loaded \notin {Null, Undefined}) =>
      /\ hist[i].loaded \in hist[i].stored
      /\ "_encrypted_fields" \in DOMAIN hist[i].loaded
      /\ \A n \in 1..Len(SecretFields) :
           "encrypted_data" \in DOMAIN hist[i].loaded[SecretFields[n]]

\* C32: when no operation is in flight, the cache entry of a pair, if there
\* is one, is the context the Store holds for that pair.
C32_CacheCoherent ==
  InFlight = {} =>
    \A q \in Pairs :
      LET cached == cacheGet(cache, CacheKeyOfPair(q))
      IN  cached # Null => cached \in findByUserAndWorkspace(rows, q[2], q[1])

\* The entry a persisted context has in a map under a key, the field
\* encryption of the row reversed; undefined when it has none.
EntryOf(row, field, key) ==
  Get(Get(decryptObject(engine, row, now), field), key)

\* The names under which the model's calls store and delete.
EntryKeys == {"openai_key", "github_token", "deploy", "iv"}

\* C33: a storeCredential, storeSSHKey or deleteSecret that persisted leaves
\* every other entry of the context (the other names of its map, and the
\* two other maps) as it was; and no step of an operation changes the row
\* of a pair other than the one it was called for.
C33_WriteTouchesOwnEntry ==
  /\ [](\A i \in 1..Len(hist) :
          (IsWrite(hist[i].call) /\ Wrote(i) /\ hist[i].stored # {}) =>
            \A n \in 1..Len(SecretFields), key \in EntryKeys :
              (SecretFields[n] # MapOf(hist[i].call) \/ key # hist[i].call.key)
                => EntryOf(hist[i].saved, SecretFields[n], key)
                     = EntryOf(StoredContext(i), SecretFields[n], key))
  /\ [][ \A p \in Procs, r \in rows :
           (proc[p].pc # "idle" /\ ~BelongsTo(r, proc[p].call))
             => r \in rows' ]_vars

\* C33, the part on other pairs alone.
C33_OtherPairsUnchanged ==
  [][ \A p \in Procs, r \in rows :
        (proc[p].pc # "idle" /\ ~BelongsTo(r, proc[p].call))
          => r \in rows' ]_vars

\* The calls saveSecretContext makes of the Store.
PersistCalls == {"FindById", "Insert", "Update"}

\* C34: when the Store rejects a call of saveSecretContext in a
\* storeCredential, storeSSHKey or deleteSecret, that step and every later
\* step of the operation leave the audit log, the cache and the rows as
\* they are; the operation has appended no audit row, the Store holds for
\* the pair what it held when the operation was called, and the cache
\* entry of the pair, if there is one, is that row.
C34_FailedWriteChangesNothing ==
  /\ [][ \A p \in InFlight :
           (FaultsOf(OpOf(p), PersistCalls) # {}
              \/ \E f \in faults' \ faults : f[2] \in PersistCalls)
             => (audit' = audit /\ cache' = cache /\ rows' = rows) ]_vars
  /\ [](\A i \in 1..Len(hist) :
          FaultsOf(i, PersistCalls) # {} =>
            /\ IsWrite(hist[i].call)
            /\ AuditEnd(i) = hist[i].auditFrom
            /\ (i < Len(hist) => hist[i + 1].stored = hist[i].stored)
            /\ (i = Len(hist) /\ InFlight = {}) =>
                 /\ findByUserAndWorkspace(rows, hist[i].call.userId,
                                           hist[i].call.workspaceId)
                      = hist[i].stored
                 /\ cacheGet(cache, CacheKeyOf(hist[i].call))
                      \in {Null} \cup hist[i].stored)

\* The Store rejected the update of a write that followed a store: the row
\* is the one of the first store, the cache holds it as the load of the
\* second call filled it, and the audit log has the row of the first store
\* alone.
C34_Witness ==
  /\ Len(hist) = 2 /\ InFlight = {}
  /\ Wrote(1)
  /\ << 2, "Update" >> \in faults
  /\ rows = { hist[1].saved }
  /\ cacheGet(cache, CacheKeyOf(hist[2].call)) = hist[1].saved
  /\ Len(audit) = 1

\* C35: saveSecretContext goes on to update when findById finds a row with
\* the id of the context and to insert when it finds none; and when an
\* insert is applied, whatever other saves ran in between, the Store has no
\* row with that id.
C35_InsertOrUpdateById ==
  [][ \A p \in Procs :
        /\ (proc[p].pc = "findById" /\ proc'[p].pc \in {"update", "insert"}) =>
             (proc'[p].pc = "update" <=> findById(rows, proc[p].ctx.id) # {})
        /\ (proc[p].pc = "insert" /\ proc'[p].pc # "insert") =>
             findById(rows, proc[p].ctx.id) = {}
    ]_vars

\* Two stores for one pair both found no context and no row with their id:
\* one has inserted its row, the other is about to apply its insert, of
\* another id.
C35_Witness ==
  \E p \in Procs :
    /\ proc[p].pc = "insert"
    /\ rows # {}
    /\ findById(rows, proc[p].ctx.id) = {}
    /\ findByUserAndWorkspace(rows, proc[p].call.userId,
                              proc[p].call.workspaceId) # {}

\* ------------------------------------------- DeploymentSessionService
\* The service keeps its sessions in memory and does no I/O, so each of
\* its methods runs to its end before another call or the cleanup timer
\* runs. A session is kept with the fields the methods below read or
\* write; the provider states, notes and metadata are merged by
\* updateSession only and read by nothing here.

\* 24 * 60 * 60 * 1000 ms in ticks of the clock: a tick is twelve hours.
SessionLifetime == 2

\* How many sessions are created at most.
MaxSessions == 2

\* How many calls carrying an error one session is given at most, and how
\* many steps.
MaxErrors == 2
MaxSteps == 1

\* How many calls the service is given in a run; the timer and the clock
\* are not counted.
MaxCalls == 3

\* The clock runs until a session created last can have expired.
MaxSessionClock == SessionLifetime + 2

UserIds == { "u1", "u2" }

ConversationIds == { Undefined, Lit("c1") }

SessionIds == 1..MaxSessions

StepNames == { "build" }

ErrorMessages == { Undefined, Lit("e1"), Lit("e2") }

\* The map and the index of the service as one value.
This == [sessions |-> sessions, userSessions |-> userSessions]

\* items.sort((a, b) => b[field] - a[field]): the sort is stable, so the
\* items of one instant keep their order.
RECURSIVE sortNewestFirst(_, _, _)
sortNewestFirst(items, field, t) ==
  IF t < 0 THEN << >>
  ELSE SelectSeq(items, LAMBDA x : x[field] = t)
         \o sortNewestFirst(items, field, t - 1)

\* The values of a map in insertion order: ids are handed out in
\* increasing order, so that is the order of the ids.
RECURSIVE valuesFrom(_, _, _)
valuesFrom(map, ids, n) ==
  IF n > MaxSessions + 1 THEN << >>
  ELSE (IF n \in ids THEN << map[n] >> ELSE << >>)
         \o valuesFrom(map, ids, n + 1)

createSessionDroppingIndex(this, userId, conversationId, sessionId, t) ==
  LET session == [ session_id |-> sessionId,
                   conversation_id |-> conversationId,
                   user_id |-> userId,
                   deployment_steps |-> << >>,
                   updated_at |-> t,
                   expires_at |-> t + SessionLifetime,
                   status |-> "planning",
                   current_step |-> Undefined,
                   last_error |-> Undefined,
                   error_count |-> 0 ]
  IN  [ this |-> [this EXCEPT !.sessions = Put(this.sessions, sessionId, session)],
        value |-> session ]

createSession(this, userId, conversationId, sessionId, t) ==
  LET session == [ session_id |-> sessionId,
                   conversation_id |-> conversationId,
                   user_id |-> userId,
                   deployment_steps |-> << >>,
                   updated_at |-> t,
                   expires_at |-> t + SessionLifetime,
                   status |-> "planning",
                   current_step |-> Undefined,
                   last_error |-> Undefined,
                   error_count |-> 0 ]
      had == IF userId \in DOMAIN this.userSessions
             THEN this.userSessions[userId] ELSE {}
  IN  [ this |-> [ sessions |-> Put(this.sessions, sessionId, session),
                   userSessions |->
                     Put(this.userSessions, userId, had \cup {sessionId}) ],
        value |-> session ]

deleteSession(this, sessionId) ==
  IF sessionId \notin DOMAIN this.sessions THEN this
  ELSE LET session == this.sessions[sessionId]
       IN  [ sessions |-> Delete(this.sessions, sessionId),
             userSessions |->
               IF session.user_id \in DOMAIN this.userSessions
               THEN Put(this.userSessions, session.user_id,
                        this.userSessions[session.user_id] \ {sessionId})
               ELSE this.userSessions ]

getSessionKeepingExpired(this, sessionId, t) ==
  IF sessionId \notin DOMAIN this.sessions
  THEN [this |-> this, value |-> Null]
  ELSE LET touched == [this.sessions[sessionId] EXCEPT
                         !.expires_at = t + SessionLifetime,
                         !.updated_at = t]
       IN  [ this |-> [this EXCEPT !.sessions[sessionId] = touched],
             value |-> touched ]

getSession(this, sessionId, t) ==
  IF sessionId \notin DOMAIN this.sessions
  THEN [this |-> this, value |-> Null]
  ELSE IF t > this.sessions[sessionId].expires_at
  THEN [this |-> deleteSession(this, sessionId), value |-> Null]
  ELSE LET touched == [this.sessions[sessionId] EXCEPT
                         !.expires_at = t + SessionLifetime,
                         !.updated_at = t]
       IN  [ this |-> [this EXCEPT !.sessions[sessionId] = touched],
             value |-> touched ]

\* The session after the mutations of a method, put back under its id:
\* the methods mutate the object the map holds.
Mutated(got, session) ==
  [ this |-> [got.this EXCEPT !.sessions[session.session_id] = session],
    value |-> session ]

updateSession(this, sessionId, sessionUpdate, t) ==
  LET got == getSession(this, sessionId, t)
  IN  IF got.value = Null THEN got
      ELSE LET session == got.value
               s1 == IF Truthy(sessionUpdate.current_step)
                     THEN [session EXCEPT !.current_step = sessionUpdate.current_step]
                     ELSE session
               s2 == IF Truthy(sessionUpdate.status)
                     THEN [s1 EXCEPT !.status = sessionUpdate.status.lit]
                     ELSE s1
               s3 == IF Truthy(sessionUpdate.error_message)
                     THEN [s2 EXCEPT !.last_error = sessionUpdate.error_message,
                                     !.error_count = @ + 1]
                     ELSE s2
           IN  Mutated(got, [s3 EXCEPT !.updated_at = t,
                                        !.expires_at = t + SessionLifetime])

addDeploymentStep(this, sessionId, stepName, status, t) ==
  LET got == getSession(this, sessionId, t)
  IN  IF got.value = Null THEN [this |-> got.this, value |-> Undefined]
      ELSE LET step == [ step_name |-> stepName, status |-> status,
                         error_message |-> Undefined ]
               session == [got.value EXCEPT
                             !.deployment_steps = Append(@, step),
                             !.current_step = Lit(stepName),
                             !.updated_at = t]
           IN  [ this |-> Mutated(got, session).this, value |-> Undefined ]

\* The place of the first step of that name, or 0.
FindStep(steps, stepName) ==
  IF \E i \in 1..Len(steps) : steps[i].step_name = stepName
  THEN CHOOSE i \in 1..Len(steps) :
         /\ steps[i].step_name = stepName
         /\ \A j \in 1..(i - 1) : steps[j].step_name # stepName
  ELSE 0

updateDeploymentStep(this, sessionId, stepName, status, errorMessage, t) ==
  LET got == getSession(this, sessionId, t)
  IN  IF got.value = Null THEN [this |-> got.this, value |-> Undefined]
      ELSE LET session == got.value
               at == FindStep(session.deployment_steps, stepName)
           IN  IF at = 0
               THEN addDeploymentStep(got.this, sessionId, stepName, status, t)
               ELSE LET s1 == [session EXCEPT
                                 !.deployment_steps[at].status = status]
                        s2 == IF Truthy(errorMessage)
                              THEN [s1 EXCEPT
                                      !.deployment_steps[at].error_message =
                                         errorMessage,
                                      !.error_count = @ + 1,
                                      !.last_error = errorMessage]
                              ELSE s1
                    IN  [ this |-> Mutated(got, [s2 EXCEPT !.updated_at = t]).this,
                          value |-> Undefined ]

\* getSession on each id of the list in turn, keeping what it returns.
RECURSIVE getEach(_, _, _, _)
getEach(this, ids, found, t) ==
  IF ids = << >> THEN [this |-> this, value |-> found]
  ELSE LET got == getSession(this, Head(ids), t)
       IN  getEach(got.this, Tail(ids),
                   IF got.value = Null THEN found ELSE Append(found, got.value),
                   t)

\* The ids of a set in the order they were added: increasing.
RECURSIVE idsInOrder(_, _)
idsInOrder(ids, n) ==
  IF n > MaxSessions + 1 THEN << >>
  ELSE (IF n \in ids THEN << n >> ELSE << >>) \o idsInOrder(ids, n + 1)

IsActive(session) == session.status \in { "in_progress", "planning" }

getUserSessions(this, userId, activeOnly, t) ==
  LET sessionIds == IF userId \in DOMAIN this.userSessions
                    THEN this.userSessions[userId] ELSE {}
      got == getEach(this, idsInOrder(sessionIds, 1), << >>, t)
      kept == SelectSeq(got.value, LAMBDA s : ~activeOnly \/ IsActive(s))
  IN  [ this |-> got.this, value |-> sortNewestFirst(kept, "updated_at", t) ]

findSessions(this, query, t) ==
  LET all == valuesFrom(this.sessions, DOMAIN this.sessions, 1)
      kept == SelectSeq(all, LAMBDA s :
                /\ ~(t > s.expires_at)
                /\ ~(Truthy(query.user_id) /\ s.user_id # query.user_id.lit)
                /\ ~(Truthy(query.status) /\ s.status # query.status.lit))
  IN  [ this |-> this, value |-> sortNewestFirst(kept, "updated_at", t) ]

getConversationSession(this, conversationId, t) ==
  LET all == valuesFrom(this.sessions, DOMAIN this.sessions, 1)
      hits == SelectSeq(all, LAMBDA s :
                s.conversation_id = conversationId /\ IsActive(s))
  IN  IF hits = << >> THEN [this |-> this, value |-> Null]
      ELSE getSession(this, Head(hits).session_id, t)

RECURSIVE deleteEach(_, _)
deleteEach(this, ids) ==
  IF ids = << >> THEN this
  ELSE deleteEach(deleteSession(this, Head(ids)), Tail(ids))

cleanupExpiredSessions(this, t) ==
  LET expired == { id \in DOMAIN this.sessions :
                     t > this.sessions[id].expires_at }
  IN  deleteEach(this, idsInOrder(expired, 1))

\* What no method of the session service touches.
OutsideSessions == << draws, plain, expiry, sealed, held, out, fieldList,
                     timers, engines, contextVars, serviceVars >>

\* The session the service holds under an id and has not yet seen expired.
Live(sessionId) ==
  /\ sessionId \in DOMAIN sessions
  /\ ~(now > sessions[sessionId].expires_at)

\* The calls that carried an error, as counted for the session.
Counted(sessionId, message) ==
  IF Truthy(message) /\ Live(sessionId)
  THEN [tally EXCEPT ![sessionId] =
          [count |-> @.count + 1, last |-> message]]
  ELSE tally

\* Room for one more call carrying an error, and for one more step.
RoomForError(sessionId, message) ==
  (Truthy(message) /\ sessionId \in DOMAIN tally) =>
    tally[sessionId].count < MaxErrors

RoomForStep(sessionId) ==
  sessionId \in DOMAIN sessions =>
    Len(sessions[sessionId].deployment_steps) < MaxSteps

CreateSession(userId, conversationId) ==
  /\ asked < MaxCalls
  /\ issued < MaxSessions
  /\ LET res == createSession(This, userId, conversationId, issued + 1, now)
     IN  /\ sessions' = res.this.sessions
         /\ userSessions' = res.this.userSessions
         /\ reply' = [ op |-> "createSession", arg |-> Lit(userId),
                       value |-> res.value ]
  /\ issued' = issued + 1
  /\ tally' = Put(tally, issued + 1, [count |-> 0, last |-> Undefined])
  /\ UNCHANGED now
  /\ asked' = asked + 1
  /\ UNCHANGED OutsideSessions

GetSession(sessionId) ==
  /\ asked < MaxCalls
  /\ LET res == getSession(This, sessionId, now)
     IN  /\ sessions' = res.this.sessions
         /\ userSessions' = res.this.userSessions
         /\ reply' = [ op |-> "getSession", arg |-> Num(sessionId),
                       value |-> res.value ]
  /\ UNCHANGED << now, issued, tally >>
  /\ asked' = asked + 1
  /\ UNCHANGED OutsideSessions

UpdateSession(sessionId, status, message) ==
  /\ asked < MaxCalls
  /\ RoomForError(sessionId, message)
  /\ LET res == updateSession(This, sessionId,
                              [ current_step |-> Undefined,
                                status |-> status,
                                error_message |-> message ], now)
     IN  /\ sessions' = res.this.sessions
         /\ userSessions' = res.this.userSessions
         /\ reply' = [ op |-> "updateSession", arg |-> Num(sessionId),
                       value |-> res.value ]
  /\ tally' = Counted(sessionId, message)
  /\ UNCHANGED << now, issued >>
  /\ asked' = asked + 1
  /\ UNCHANGED OutsideSessions

AddDeploymentStep(sessionId, stepName) ==
  /\ asked < MaxCalls
  /\ RoomForStep(sessionId)
  /\ LET res == addDeploymentStep(This, sessionId, stepName, "pending", now)
     IN  /\ sessions' = res.this.sessions
         /\ userSessions' = res.this.userSessions
         /\ reply' = [ op |-> "addDeploymentStep", arg |-> Num(sessionId),
                       value |-> res.value ]
  /\ UNCHANGED << now, issued, tally >>
  /\ asked' = asked + 1
  /\ UNCHANGED OutsideSessions

UpdateDeploymentStep(sessionId, stepName, status, message) ==
  /\ asked < MaxCalls
  /\ RoomForError(sessionId, message)
  /\ (sessionId \in DOMAIN sessions
        /\ FindStep(sessions[sessionId].deployment_steps, stepName) = 0) =>
       RoomForStep(sessionId)
  /\ LET res == updateDeploymentStep(This, sessionId, stepName, status,
                                     message, now)
     IN  /\ sessions' = res.this.sessions
         /\ userSessions' = res.this.userSessions
         /\ reply' = [ op |-> "updateDeploymentStep", arg |-> Num(sessionId),
                       value |-> res.value ]
  /\ tally' = Counted(sessionId, message)
  /\ UNCHANGED << now, issued >>
  /\ asked' = asked + 1
  /\ UNCHANGED OutsideSessions

GetUserSessions(userId, activeOnly) ==
  /\ asked < MaxCalls
  /\ LET res == getUserSessions(This, userId, activeOnly, now)
     IN  /\ sessions' = res.this.sessions
         /\ userSessions' = res.this.userSessions
         /\ reply' = [ op |-> "getUserSessions", arg |-> Lit(userId),
                       value |-> res.value ]
  /\ UNCHANGED << now, issued, tally >>
  /\ asked' = asked + 1
  /\ UNCHANGED OutsideSessions

FindSessions(userId) ==
  /\ asked < MaxCalls
  /\ LET res == findSessions(This, [ user_id |-> userId,
                                     status |-> Undefined ], now)
     IN  /\ sessions' = res.this.sessions
         /\ userSessions' = res.this.userSessions
         /\ reply' = [ op |-> "findSessions", arg |-> userId,
                       value |-> res.value ]
  /\ UNCHANGED << now, issued, tally >>
  /\ asked' = asked + 1
  /\ UNCHANGED OutsideSessions

GetConversationSession(conversationId) ==
  /\ asked < MaxCalls
  /\ LET res == getConversationSession(This, conversationId, now)
     IN  /\ sessions' = res.this.sessions
         /\ userSessions' = res.this.userSessions
         /\ reply' = [ op |-> "getConversationSession",
                       arg |-> conversationId, value |-> res.value ]
  /\ UNCHANGED << now, issued, tally >>
  /\ asked' = asked + 1
  /\ UNCHANGED OutsideSessions

DeleteSession(sessionId) ==
  /\ asked < MaxCalls
  /\ LET res == deleteSession(This, sessionId)
     IN  /\ sessions' = res.sessions
         /\ userSessions' = res.userSessions
  /\ reply' = [ op |-> "deleteSession", arg |-> Num(sessionId),
                value |-> Undefined ]
  /\ UNCHANGED << now, issued, tally >>
  /\ asked' = asked + 1
  /\ UNCHANGED OutsideSessions

\* The timer of the constructor: setInterval(cleanupExpiredSessions, 60000).
CleanupExpiredSessions ==
  /\ LET res == cleanupExpiredSessions(This, now)
     IN  /\ sessions' = res.sessions
         /\ userSessions' = res.userSessions
  /\ reply' = [ op |-> "cleanupExpiredSessions", arg |-> Undefined,
                value |-> Undefined ]
  /\ UNCHANGED << now, issued, tally, asked >>
  /\ UNCHANGED OutsideSessions

\* Twelve hours pass.
SessionTick ==
  /\ now < MaxSessionClock
  /\ now' = now + 1
  /\ UNCHANGED << sessionVars, OutsideSessions >>

\* Sessions are created, read, deleted and left to expire.
NextSessions ==
  \/ \E u \in UserIds, c \in ConversationIds : CreateSession(u, c)
  \/ \E id \in SessionIds : GetSession(id)
  \/ \E id \in SessionIds : UpdateSession(id, Lit("completed"), Undefined)
  \/ \E id \in SessionIds, n \in StepNames : AddDeploymentStep(id, n)
  \/ \E id \in SessionIds, n \in StepNames :
       UpdateDeploymentStep(id, n, "completed", Undefined)
  \/ \E u \in UserIds, activeOnly \in BOOLEAN : GetUserSessions(u, activeOnly)
  \/ \E u \in UserIds : FindSessions(Lit(u))
  \/ \E c \in ConversationIds : GetConversationSession(c)
  \/ \E id \in SessionIds : DeleteSession(id)
  \/ CleanupExpiredSessions
  \/ SessionTick

SpecSessions == Init /\ [][NextSessions]_vars

\* The session under an id is past its expires_at now.
Expired(sessionId) ==
  /\ sessionId \in DOMAIN sessions
  /\ now > sessions[sessionId].expires_at

\* The methods that go through getSession with the id they are given.
ByIdOps == { "getSession", "updateSession", "addDeploymentStep",
             "updateDeploymentStep" }

\* The sessions a call returned.
Returned(r) ==
  IF r.op \in { "getUserSessions", "findSessions" }
  THEN { r.value[i] : i \in 1..Len(r.value) }
  ELSE IF r.op \in { "getSession", "updateSession", "getConversationSession" }
          /\ r.value # Null
  THEN { r.value }
  ELSE {}

\* C36: deployment sessions expire after 24 hours of inactivity. No call
\* returns a session whose expires_at was past when the call was made,
\* none changes such a session other than by removing it, a call that goes
\* through getSession removes the expired session it meets, and a session
\* such a call reaches while it is live has its expires_at set to 24 hours
\* after the call, in the map and in what is returned.
C36_SessionsExpire ==
  [][ asked' = asked + 1 =>
        /\ \A s \in Returned(reply') :
             reply'.op # "createSession" =>
               /\ s.session_id \in DOMAIN sessions
               /\ ~Expired(s.session_id)
        /\ \A id \in DOMAIN sessions :
             Expired(id) =>
               \/ id \notin DOMAIN sessions'
               \/ sessions'[id] = sessions[id]
        /\ \A id \in DOMAIN sessions :
             ( /\ Expired(id)
               /\ \/ reply'.op \in ByIdOps /\ reply'.arg = Num(id)
                  \/ /\ reply'.op = "getUserSessions"
                     /\ reply'.arg = Lit(sessions[id].user_id) ) =>
               /\ id \notin DOMAIN sessions'
               /\ reply'.op \in { "getSession", "updateSession" } =>
                    reply'.value = Null
        /\ \A id \in DOMAIN sessions :
             ( /\ ~Expired(id)
               /\ reply'.op \in ByIdOps /\ reply'.arg = Num(id) ) =>
               /\ id \in DOMAIN sessions'
               /\ sessions'[id].expires_at = now + SessionLifetime
        /\ \A s \in Returned(reply') :
             reply'.op # "findSessions" =>
               /\ s.expires_at = now + SessionLifetime
               /\ sessions'[s.session_id].expires_at = now + SessionLifetime
    ]_vars

\* A session was created, left alone for more than 24 hours and then asked
\* for: getSession returned null and the session is gone.
C36_Witness ==
  /\ asked = 2 /\ issued = 1
  /\ now > SessionLifetime
  /\ reply.op = "getSession" /\ reply.arg = Num(1)
  /\ reply.value = Null
  /\ 1 \notin DOMAIN sessions

\* The per-user index lists exactly the sessions of the map, each under its
\* own user.
IndexMatches ==
  \A u \in UserIds, id \in SessionIds \cup (1..issued) :
    (u \in DOMAIN userSessions /\ id \in userSessions[u]) <=>
      (id \in DOMAIN sessions /\ sessions[id].user_id = u)

\* The session under the id is in neither structure.
InNeither(map, index, id) ==
  /\ id \notin DOMAIN map
  /\ \A u \in DOMAIN index : id \notin index[u]

\* C37: session index consistency. At every moment a session id is in the
\* per-user index of user u exactly when the session map holds a session
\* with that id whose user_id is u; a session that deleteSession is given,
\* and one that a call or the cleanup timer finds expired, is afterwards in
\* neither the map nor the index.
C37_IndexConsistent ==
  /\ []IndexMatches
  /\ [][ \A id \in DOMAIN sessions :
           ( \/ reply'.op = "deleteSession" /\ reply'.arg = Num(id)
             \/ reply'.op = "cleanupExpiredSessions" /\ Expired(id)
             \/ reply'.op \in ByIdOps /\ reply'.arg = Num(id) /\ Expired(id) )
           => InNeither(sessions', userSessions', id) ]_sessionVars

\* Two users each had a session created and the first was deleted: the
\* index of the first user is empty and that of the second still lists
\* its session.
C37_Witness ==
  /\ issued = 2
  /\ reply.op = "deleteSession" /\ reply.arg = Num(1)
  /\ DOMAIN sessions = {2}
  /\ DOMAIN userSessions = UserIds
  /\ userSessions[sessions[2].user_id] = {2}
  /\ \E u \in UserIds : userSessions[u] = {}

\* Sessions are created and given steps and errors; no time passes.
NextSessionErrors ==
  \/ \E u \in UserIds : CreateSession(u, Undefined)
  \/ \E id \in SessionIds, m \in ErrorMessages :
       UpdateSession(id, Undefined, m)
  \/ \E id \in SessionIds, n \in StepNames : AddDeploymentStep(id, n)
  \/ \E id \in SessionIds, n \in StepNames, m \in ErrorMessages :
       UpdateDeploymentStep(id, n, "failed", m)
  \/ \E id \in SessionIds : GetSession(id)

SpecSessionErrors == Init /\ [][NextSessionErrors]_vars

\* C38: error accounting in a deployment session. For every session the
\* service holds, error_count is the number of updateSession calls that
\* carried an error_message plus the number of updateDeploymentStep calls
\* that carried an errorMessage, and last_error is the message of the most
\* recent of them, whether or not the step named existed before the call.
C38_ErrorsCounted ==
  \A id \in DOMAIN sessions :
    /\ sessions[id].error_count = tally[id].count
    /\ sessions[id].last_error = tally[id].last

\* What the code counts: the calls of updateSession that carried a message
\* and those of updateDeploymentStep that carried one and named a step the
\* session already had. A call of updateDeploymentStep that adds the step
\* leaves error_count and last_error as they were.
C38_CountedWhereStepExisted ==
  [][ \A id \in DOMAIN sessions :
        LET carried == /\ asked' = asked + 1
                       /\ reply'.op \in { "updateSession",
                                          "updateDeploymentStep" }
                       /\ reply'.arg = Num(id)
                       /\ tally'[id].count = tally[id].count + 1
            missing == /\ reply'.op = "updateDeploymentStep"
                       /\ Len(sessions'[id].deployment_steps)
                            = Len(sessions[id].deployment_steps) + 1
        IN  /\ (carried /\ ~missing) =>
                 /\ sessions'[id].error_count = sessions[id].error_count + 1
                 /\ sessions'[id].last_error = tally'[id].last
            /\ (carried /\ missing) =>
                 /\ sessions'[id].error_count = sessions[id].error_count
                 /\ sessions'[id].last_error = sessions[id].last_error
            /\ (~carried /\ id \in DOMAIN sessions') =>
                 /\ sessions'[id].error_count = sessions[id].error_count
                 /\ sessions'[id].last_error = sessions[id].last_error
    ]_vars

\* ------------------------------------------------- UserContextService
\* The service keeps one document per (workspace, user) pair: after
\* saveUserContext the row of user_contexts and the cache entry of the pair
\* hold the same document, and getUserContext returns it. userContext is
\* that document for the one pair the calls below are made for, or Null.
\* Instants are kept as numbers: toISOString gives strings of one width,
\* whose order as strings is the order of the instants.

\* How many items of each collection a context keeps.
PatternsKept == 50
EventsKept == 100
ConversationsKept == 200
SessionsKept == 10

\* 7 * 24 * 60 * 60 * 1000 ms in ticks of the clock: for the calls of this
\* service a tick is three and a half days.
UserSessionLifetime == 2

\* How many UUIDs the calls of a run draw at most.
MaxContextDraws == 3

MaxContextClock == UserSessionLifetime + 1

\* array.slice(0, n)
slice(items, n) == SubSeq(items, 1, IF Len(items) < n THEN Len(items) ELSE n)

createUserContext(n) ==
  [ id |-> randomUUID(n),
    deployment_patterns |-> << >>,
    infrastructure_history |-> << >>,
    conversation_context |-> << >>,
    deployment_sessions |-> << >>,
    updated_at |-> 0 ]

\* let userContext = await getUserContext(); if (!userContext) userContext
\* = await createUserContext(): the context and the UUIDs drawn so far.
GetOrCreate(ctx, n) ==
  IF ctx = Null THEN [ctx |-> createUserContext(n + 1), n |-> n + 1]
  ELSE [ctx |-> ctx, n |-> n]

\* deployment_patterns.findIndex(p => p.name === name && p.pattern_type ===
\* type): the place of the first such pattern, or 0.
findPattern(items, name, type) ==
  IF \E i \in 1..Len(items) :
       items[i].name = name /\ items[i].pattern_type = type
  THEN CHOOSE i \in 1..Len(items) :
         /\ items[i].name = name /\ items[i].pattern_type = type
         /\ \A j \in 1..(i - 1) :
              ~(items[j].name = name /\ items[j].pattern_type = type)
  ELSE 0

\* deployment_sessions.findIndex(s => s.id === sessionId): the place of
\* the first such session, or 0.
findSession(items, sessionId) ==
  IF \E i \in 1..Len(items) : items[i].id = sessionId
  THEN CHOOSE i \in 1..Len(items) :
         /\ items[i].id = sessionId
         /\ \A j \in 1..(i - 1) : items[j].id # sessionId
  ELSE 0

addDeploymentPattern(ctx, pattern, n, t) ==
  LET got == GetOrCreate(ctx, n)
      deploymentPattern == [ id |-> randomUUID(got.n + 1),
                             created_at |-> t,
                             name |-> pattern.name,
                             pattern_type |-> pattern.pattern_type,
                             usage_count |-> pattern.usage_count,
                             last_used |-> pattern.last_used ]
      had == got.ctx.deployment_patterns
      at == findPattern(had, pattern.name, pattern.pattern_type)
      put == IF at > 0
             THEN [had EXCEPT ![at] =
                     [deploymentPattern EXCEPT
                        !.usage_count = had[at].usage_count + 1,
                        !.last_used = t]]
             ELSE Append(had, deploymentPattern)
      kept == IF Len(put) > PatternsKept
              THEN slice(sortNewestFirst(put, "last_used", MaxContextClock),
                         PatternsKept)
              ELSE put
  IN  [ ctx |-> [got.ctx EXCEPT !.deployment_patterns = kept,
                                !.updated_at = t],
        n |-> got.n + 1,
        value |-> Undefined,
        added |-> deploymentPattern.id ]

recordInfrastructureEvent(ctx, event, n, t) ==
  LET got == GetOrCreate(ctx, n)
      infrastructureEvent == [ id |-> randomUUID(got.n + 1),
                               timestamp |-> t,
                               event_type |-> event.event_type ]
      put == Append(got.ctx.infrastructure_history, infrastructureEvent)
      kept == IF Len(put) > EventsKept
              THEN slice(sortNewestFirst(put, "timestamp", MaxContextClock),
                         EventsKept)
              ELSE put
  IN  [ ctx |-> [got.ctx EXCEPT !.infrastructure_history = kept,
                                !.updated_at = t],
        n |-> got.n + 1,
        value |-> Undefined,
        added |-> infrastructureEvent.id ]

addConversationContext(ctx, conversation, n, t) ==
  LET got == GetOrCreate(ctx, n)
      conversationContext == [ id |-> randomUUID(got.n + 1),
                               timestamp |-> t,
                               message_content |-> conversation.message_content ]
      put == Append(got.ctx.conversation_context, conversationContext)
      kept == IF Len(put) > ConversationsKept
              THEN slice(sortNewestFirst(put, "timestamp", MaxContextClock),
                         ConversationsKept)
              ELSE put
  IN  [ ctx |-> [got.ctx EXCEPT !.conversation_context = kept,
                                !.updated_at = t],
        n |-> got.n + 1,
        value |-> Undefined,
        added |-> conversationContext.id ]

createDeploymentSession(ctx, sessionName, n, t) ==
  LET got == GetOrCreate(ctx, n)
      deploymentSession == [ id |-> randomUUID(got.n + 1),
                             session_name |-> sessionName,
                             session_state |-> "active",
                             updated_at |-> t,
                             expires_at |-> t + UserSessionLifetime ]
      put == Append(got.ctx.deployment_sessions, deploymentSession)
      kept == slice(sortNewestFirst(put, "updated_at", MaxContextClock),
                    SessionsKept)
  IN  [ ctx |-> [got.ctx EXCEPT !.deployment_sessions = kept,
                                !.updated_at = t],
        n |-> got.n + 1,
        value |-> deploymentSession,
        added |-> deploymentSession.id ]

updateDeploymentSession(ctx, sessionId, updates, t) ==
  IF ctx = Null THEN [ctx |-> ctx, value |-> Null]
  ELSE LET at == findSession(ctx.deployment_sessions, sessionId)
       IN  IF at = 0 THEN [ctx |-> ctx, value |-> Null]
           ELSE LET existingSession == ctx.deployment_sessions[at]
                    updatedSession ==
                      [ id |-> existingSession.id,
                        session_name |-> existingSession.session_name,
                        session_state |->
                          IF Truthy(updates.session_state)
                          THEN updates.session_state.lit
                          ELSE existingSession.session_state,
                        updated_at |-> t,
                        expires_at |->
                          IF \/ updates.session_state = Lit("active")
                             \/ existingSession.session_state = "active"
                          THEN t + UserSessionLifetime
                          ELSE existingSession.expires_at ]
                IN  [ ctx |-> [ctx EXCEPT
                                 !.deployment_sessions[at] = updatedSession,
                                 !.updated_at = t],
                      value |-> updatedSession ]

getDeploymentSession(ctx, sessionId) ==
  IF ctx = Null THEN Null
  ELSE LET at == findSession(ctx.deployment_sessions, sessionId)
       IN  IF at = 0 THEN Null ELSE ctx.deployment_sessions[at]

getActiveDeploymentSessions(ctx, t) ==
  IF ctx = Null THEN << >>
  ELSE sortNewestFirst(
         SelectSeq(ctx.deployment_sessions,
                   LAMBDA s : s.session_state = "active" /\ s.expires_at > t),
         "updated_at", MaxContextClock)

resumeDeploymentSession(ctx, sessionId, t) ==
  LET session == getDeploymentSession(ctx, sessionId)
  IN  IF session = Null THEN [ctx |-> ctx, value |-> Null]
      ELSE IF session.expires_at <= t THEN [ctx |-> ctx, value |-> Null]
      ELSE IF session.session_state = "paused"
      THEN updateDeploymentSession(ctx, sessionId,
                                   [session_state |-> Lit("active")], t)
      ELSE [ctx |-> ctx, value |-> session]

pauseDeploymentSession(ctx, sessionId, t) ==
  updateDeploymentSession(ctx, sessionId, [session_state |-> Lit("paused")], t)

\* UserContextService.cleanupExpiredSessions
cleanupExpiredUserSessions(ctx, t) ==
  IF ctx = Null THEN [ctx |-> ctx, value |-> 0]
  ELSE LET left == SelectSeq(ctx.deployment_sessions,
                     LAMBDA s : s.expires_at > t \/ s.session_state = "active")
           cleanedCount == Len(ctx.deployment_sessions) - Len(left)
       IN  [ ctx |-> IF cleanedCount > 0
                     THEN [ctx EXCEPT !.deployment_sessions = left,
                                      !.updated_at = t]
                     ELSE [ctx EXCEPT !.deployment_sessions = left],
             value |-> cleanedCount ]

\* A context that has been given one item less than each collection keeps,
\* all at instant 0. Its UUIDs were drawn before the run: they are numbered
\* from 1000 up, apart from those the run draws.
FilledContext ==
  [ id |-> randomUUID(1000),
    deployment_patterns |->
      [ k \in 1..(PatternsKept - 1) |->
          [ id |-> randomUUID(1000 + k), created_at |-> 0, name |-> k,
            pattern_type |-> "deployment", usage_count |-> 0,
            last_used |-> 0 ] ],
    infrastructure_history |->
      [ k \in 1..(EventsKept - 1) |->
          [ id |-> randomUUID(2000 + k), timestamp |-> 0,
            event_type |-> "deploy" ] ],
    conversation_context |->
      [ k \in 1..(ConversationsKept - 1) |->
          [ id |-> randomUUID(3000 + k), timestamp |-> 0,
            message_content |-> "hi" ] ],
    deployment_sessions |->
      [ k \in 1..(SessionsKept - 1) |->
          [ id |-> randomUUID(4000 + k), session_name |-> "s",
            session_state |-> "active", updated_at |-> 0,
            expires_at |-> UserSessionLifetime ] ],
    updated_at |-> 0 ]

\* Either no context yet, or one that is nearly full.
InitContexts ==
  /\ InitService
  /\ InitSessions
  /\ userContext \in { Null, FilledContext }
  /\ answer = Undefined

\* What no method of the user-context service touches.
OutsideContext == << draws, plain, expiry, sealed, held, out, fieldList,
                    timers, engines, sessionVars, rows, cache, audit, proc,
                    hist, down, faults >>

\* The names a pattern is added under: one the filled context has and two
\* it has not.
PatternNames == { 1, PatternsKept, PatternsKept + 1 }

\* The sessions the calls name: the first one a run creates after it has
\* created the context, and one that does not exist.
NamedSessions == { randomUUID(2), randomUUID(4001) }

SessionStates == { Undefined, Lit("active"), Lit("completed") }

AddDeploymentPattern(name, lastUsed) ==
  /\ uuids < MaxContextDraws
  /\ lastUsed <= now
  /\ LET res == addDeploymentPattern(userContext,
                  [ name |-> name, pattern_type |-> "deployment",
                    usage_count |-> 0, last_used |-> lastUsed ], uuids, now)
     IN  /\ res.n <= MaxContextDraws
         /\ userContext' = res.ctx
         /\ uuids' = res.n
         /\ answer' = [ op |-> "addDeploymentPattern", arg |-> Undefined,
                        value |-> res.value, added |-> res.added ]
  /\ UNCHANGED now
  /\ UNCHANGED OutsideContext

RecordInfrastructureEvent ==
  /\ uuids < MaxContextDraws
  /\ LET res == recordInfrastructureEvent(userContext,
                  [event_type |-> "deploy"], uuids, now)
     IN  /\ res.n <= MaxContextDraws
         /\ userContext' = res.ctx
         /\ uuids' = res.n
         /\ answer' = [ op |-> "recordInfrastructureEvent",
                        arg |-> Undefined,
                        value |-> res.value, added |-> res.added ]
  /\ UNCHANGED now
  /\ UNCHANGED OutsideContext

AddConversationContext ==
  /\ uuids < MaxContextDraws
  /\ LET res == addConversationContext(userContext,
                  [message_content |-> "hi"], uuids, now)
     IN  /\ res.n <= MaxContextDraws
         /\ userContext' = res.ctx
         /\ uuids' = res.n
         /\ answer' = [ op |-> "addConversationContext", arg |-> Undefined,
                        value |-> res.value, added |-> res.added ]
  /\ UNCHANGED now
  /\ UNCHANGED OutsideContext

CreateDeploymentSession ==
  /\ uuids < MaxContextDraws
  /\ LET res == createDeploymentSession(userContext, "s", uuids, now)
     IN  /\ res.n <= MaxContextDraws
         /\ userContext' = res.ctx
         /\ uuids' = res.n
         /\ answer' = [ op |-> "createDeploymentSession", arg |-> Undefined,
                        value |-> res.value, added |-> res.added ]
  /\ UNCHANGED now
  /\ UNCHANGED OutsideContext

UpdateDeploymentSession(sessionId, state) ==
  /\ LET res == updateDeploymentSession(userContext, sessionId,
                                        [session_state |-> state], now)
     IN  /\ userContext' = res.ctx
         /\ answer' = [ op |-> "updateDeploymentSession", arg |-> sessionId,
                        value |-> res.value, added |-> Undefined ]
  /\ UNCHANGED << now, uuids >>
  /\ UNCHANGED OutsideContext

ResumeDeploymentSession(sessionId) ==
  /\ LET res == resumeDeploymentSession(userContext, sessionId, now)
     IN  /\ userContext' = res.ctx
         /\ answer' = [ op |-> "resumeDeploymentSession", arg |-> sessionId,
                        value |-> res.value, added |-> Undefined ]
  /\ UNCHANGED << now, uuids >>
  /\ UNCHANGED OutsideContext

PauseDeploymentSession(sessionId) ==
  /\ LET res == pauseDeploymentSession(userContext, sessionId, now)
     IN  /\ userContext' = res.ctx
         /\ answer' = [ op |-> "pauseDeploymentSession", arg |-> sessionId,
                        value |-> res.value, added |-> Undefined ]
  /\ UNCHANGED << now, uuids >>
  /\ UNCHANGED OutsideContext

GetActiveDeploymentSessions ==
  /\ answer' = [ op |-> "getActiveDeploymentSessions", arg |-> Undefined,
                 value |-> getActiveDeploymentSessions(userContext, now),
                 added |-> Undefined ]
  /\ UNCHANGED << now, uuids, userContext >>
  /\ UNCHANGED OutsideContext

CleanupExpiredUserSessions ==
  /\ LET res == cleanupExpiredUserSessions(userContext, now)
     IN  /\ userContext' = res.ctx
         /\ answer' = [ op |-> "cleanupExpiredSessions", arg |-> Undefined,
                        value |-> Num(res.value), added |-> Undefined ]
  /\ UNCHANGED << now, uuids >>
  /\ UNCHANGED OutsideContext

\* Three and a half days pass.
ContextTick ==
  /\ now < MaxContextClock
  /\ now' = now + 1
  /\ UNCHANGED << uuids, contextVars, OutsideContext >>

\* Items are added to the collections of a user context.
NextCollections ==
  \/ \E name \in PatternNames, lastUsed \in 0..MaxContextClock :
       AddDeploymentPattern(name, lastUsed)
  \/ RecordInfrastructureEvent
  \/ AddConversationContext
  \/ CreateDeploymentSession
  \/ ContextTick

SpecCollections == InitContexts /\ [][NextCollections]_vars

\* The deployment sessions of a user context are created, updated, paused,
\* resumed, listed and cleaned up.
NextUserSessions ==
  \/ CreateDeploymentSession
  \/ \E id \in NamedSessions, state \in SessionStates :
       UpdateDeploymentSession(id, state)
  \/ \E id \in NamedSessions : ResumeDeploymentSession(id)
  \/ \E id \in NamedSessions : PauseDeploymentSession(id)
  \/ GetActiveDeploymentSessions
  \/ CleanupExpiredUserSessions
  \/ ContextTick

SpecUserSessions == Init /\ [][NextUserSessions]_vars

\* The collection a call adds to.
CollectionOf(op) ==
  CASE op = "addDeploymentPattern" -> "deployment_patterns"
    [] op = "recordInfrastructureEvent" -> "infrastructure_history"
    [] op = "addConversationContext" -> "conversation_context"
    [] op = "createDeploymentSession" -> "deployment_sessions"

AddingOps == { "addDeploymentPattern", "recordInfrastructureEvent",
               "addConversationContext", "createDeploymentSession" }

\* The context holds an item of that id in that collection.
Holds(ctx, collection, id) ==
  \E i \in 1..Len(ctx[collection]) : ctx[collection][i].id = id

\* No collection of the context is longer than what the service keeps.
WithinBounds(ctx) ==
  /\ Len(ctx.deployment_patterns) <= PatternsKept
  /\ Len(ctx.infrastructure_history) <= EventsKept
  /\ Len(ctx.conversation_context) <= ConversationsKept
  /\ Len(ctx.deployment_sessions) <= SessionsKept

\* C39: user-context collections stay bounded and keep the newest items.
\* After any sequence of addDeploymentPattern, recordInfrastructureEvent,
\* addConversationContext and createDeploymentSession the context holds at
\* most 50 patterns, 100 events, 200 conversation entries and 10 sessions,
\* and the item the last call added is among those it holds.
C39_BoundedAndNewestKept ==
  userContext # Null =>
    /\ WithinBounds(userContext)
    /\ (answer # Undefined /\ answer.op \in AddingOps) =>
         Holds(userContext, CollectionOf(answer.op), answer.added)

\* The bounds alone hold.
C39_Bounded ==
  userContext # Null => WithinBounds(userContext)

\* What holds of the item just added: it is kept whenever the collection
\* held fewer items than the service keeps before the call. When the
\* collection is sorted and cut, the new item is the last of the array and
\* the sort is stable, so it is cut if as many items as are kept have a
\* sort key (last_used of a pattern, timestamp of an event or conversation
\* entry, updated_at of a session) that is not older than its own.
C39_KeptWhereRoom ==
  [][ (uuids' # uuids /\ userContext # Null) =>
        LET collection == CollectionOf(answer'.op)
            kept == CASE collection = "deployment_patterns" -> PatternsKept
                      [] collection = "infrastructure_history" -> EventsKept
                      [] collection = "conversation_context" ->
                           ConversationsKept
                      [] OTHER -> SessionsKept
        IN  Len(userContext[collection]) < kept =>
              Holds(userContext', collection, answer'.added)
    ]_vars

\* The sessions of the stored context whose expires_at is past: resume
\* refuses a session once expires_at <= now, and the listing wants
\* expires_at > now.
ExpiredUserSessions ==
  IF userContext = Null THEN {}
  ELSE { userContext.deployment_sessions[i] :
           i \in { j \in 1..Len(userContext.deployment_sessions) :
                     userContext.deployment_sessions[j].expires_at <= now } }

\* resumeDeploymentSession on a session that is past its expires_at
\* returns null and changes nothing, and getActiveDeploymentSessions does
\* not list such a session.
RefusedAndUnlisted(s) ==
  /\ (answer'.op = "resumeDeploymentSession" /\ answer'.arg = s.id) =>
       (answer'.value = Null /\ userContext' = userContext)
  /\ answer'.op = "getActiveDeploymentSessions" =>
       \A k \in 1..Len(answer'.value) : answer'.value[k].id # s.id

\* C40: an expired user deployment session is never revived. Once the
\* expires_at of a session is past, no call leaves the session with an
\* expires_at in the future; resumeDeploymentSession returns null for it
\* and changes nothing, and getActiveDeploymentSessions never lists it.
C40_ExpiredNeverRevived ==
  [][ now' = now =>
        \A s \in ExpiredUserSessions :
          /\ \A j \in 1..Len(userContext'.deployment_sessions) :
               userContext'.deployment_sessions[j].id = s.id =>
                 userContext'.deployment_sessions[j].expires_at <= now
          /\ RefusedAndUnlisted(s)
    ]_vars

\* What holds: resume refuses an expired session and the listing leaves it
\* out. It is updateDeploymentSession, and pauseDeploymentSession through
\* it, that gives an expired session a new expires_at.
C40_ResumeRefusesExpired ==
  [][ now' = now => \A s \in ExpiredUserSessions : RefusedAndUnlisted(s) ]_vars

====
